---- MODULE Spec2Model ----
(***************************************************************************)
(* Model of the SportsClubApp service layer:                               *)
(*   - AttendanceService (markAttendance / bulkUpdateAttendance) over the  *)
(*     "attendance" collection of the document store;                      *)
(*   - ClassService (generateDateRange / previewBulkClasses /              *)
(*     createBulkClasses) over the "classes" collection.                   *)
(* Every store round trip (an await in the source) is one step, so that    *)
(* calls of different clients interleave exactly at the awaits.            *)
(***************************************************************************)
EXTENDS Integers, Sequences, FiniteSets, TLC

VARIABLES
    \* ---- attendance collection and its clients
    attendance,   \* the documents of the collection, in insertion order
    uniqueIndex,  \* whether the store was set up with the unique attendance index
    clock,        \* the wall clock read by new Date()
    att,          \* per client: the frame of the running attendance call
    lastReq,      \* history: the last request issued to the attendance collection
    calls,        \* history: number of markAttendance invocations so far
    failures,     \* history: number of failed attendance requests so far
    hist,         \* history: the last two completed markAttendance calls of a lone client
    active,       \* the clients that issue calls in this behaviour
    \* ---- classes collection and the bulk scheduler
    classes,      \* the documents of the classes collection, in insertion order
    zone,         \* the device's time zone
    bulk,         \* the frame of the running createBulkClasses call
    createLog,    \* history: every createClass request issued by the bulk commit
    manual,       \* number of classes created by other clients
    \* ---- generateDateRange called on its own
    dr,           \* arguments and result of the last generateDateRange call
    \* ---- screens: batch-time matching and the attendance modal
    norm,         \* arguments and results of the last normalizeBatchTime / timeMatches trial
    modal,        \* the attendance modal: its load in progress and its state
    \* ---- service methods called on their own
    svc,          \* the last service call: method, outcome of its store call, result
    \* ---- students collection and the add-student form
    students,     \* the collection: its documents in insertion order, its email index
    addFlow,      \* the frame of the running handleSubmit of the form, and history
    \* ---- the Attendance screen and the session
    screen,       \* AttendanceScreen: its state, its loads in flight, the events pending
    auth          \* AuthProvider: user, isLoading, the operations in flight

attVars == <<attendance, uniqueIndex, clock, att, lastReq, calls, failures, hist, active>>
bulkVars == <<classes, zone, bulk, createLog, manual>>
dateVars == <<dr>>
uiVars == <<norm, modal, svc, students, addFlow, screen, auth>>
vars == <<attendance, uniqueIndex, clock, att, lastReq, calls, failures, hist, active,
          classes, zone, bulk, createLog, manual, dr, norm, modal, svc,
          students, addFlow, screen, auth>>

(***************************************************************************)
(* Bounds of the model.                                                    *)
(***************************************************************************)
MaxCalls == 3        \* markAttendance invocations of a lone client
MaxConcCalls == 2    \* markAttendance invocations of concurrent clients together
MaxClock == 2        \* last value of the wall clock
MaxStoreFailures == 2 \* failing requests to the attendance collection in one behaviour

Clients == {"c1", "c2"}
Students == {"s1", "s2", "s3"}
ClassIds == {"k1"}
ClassDates == {1}

\* ---------------------------------------------------------------- helpers
Last(s) == s[Len(s)]

SeqCount(s, P(_)) == Cardinality({i \in 1..Len(s) : P(s[i])})

RECURSIVE SelectIdx(_, _, _)
\* the sub-sequence of s of the elements whose index is in keep (Array.filter)
SelectIdx(s, keep, i) ==
    IF i > Len(s) THEN <<>>
    ELSE (IF i \in keep THEN <<s[i]>> ELSE <<>>) \o SelectIdx(s, keep, i + 1)

\* the characters that trim() and the regular expression \s take for white space
WhiteSpace == {" ", "\t"}

\* String.prototype.trim on a string given as a sequence of characters
RECURSIVE TrimLeft(_)
TrimLeft(s) == IF s # <<>> /\ Head(s) \in WhiteSpace THEN TrimLeft(Tail(s)) ELSE s
RECURSIVE TrimRight(_)
TrimRight(s) ==
    IF s # <<>> /\ s[Len(s)] \in WhiteSpace THEN TrimRight(SubSeq(s, 1, Len(s) - 1)) ELSE s
Trim(s) == TrimRight(TrimLeft(s))

\* `b ? 'true' : 'false'`
EncodeBool(b) == IF b THEN "true" ELSE "false"

\* mutant: the token is tested for truth, as a non-empty string is
DecodeBoolTruthy(s) == s # ""

\* `record.is_present === 'true'`
DecodeBool(s) == s = "true"

(***************************************************************************)
(* The attendance collection.                                              *)
(***************************************************************************)
\* error objects a store request can reject with (code, message)
StoreErrors == {[code |-> 500, message |-> "Network request failed"]}
IndexConflict == [code |-> 409, message |-> "Document already exists"]

\* attendanceData values passed by callers; notes is a string (sequence of characters)
NotesInput(c) == IF c = "c1" THEN <<" ", "x", " ">> ELSE <<"y">>
MarkInputs(c) ==
    [class_id : ClassIds, student_id : {"s1"}, class_date : ClassDates,
     is_present : BOOLEAN, payment_complete : BOOLEAN,
     marked_by : {c}, notes : {NotesInput(c)}]

\* the updates the attendance modal builds: one per roster student, in roster order
Rosters == {<<"s1">>, <<"s1", "s2">>, <<"s1", "s2", "s3">>}
UpdateValues == {[is_present |-> TRUE, payment_complete |-> FALSE],
                 [is_present |-> FALSE, payment_complete |-> TRUE]}
UpdateInputs(roster) ==
    {[i \in 1..Len(roster) |->
        [student_id |-> roster[i], is_present |-> v[i].is_present,
         payment_complete |-> v[i].payment_complete, notes |-> <<>>]] :
     v \in [1..Len(roster) -> UpdateValues]}

\* a document already in the collection when the behaviour starts
SeedRecord ==
    [id |-> 1, class_id |-> "k1", student_id |-> "s1", class_date |-> 1,
     is_present |-> "false", payment_complete |-> "false", marked_by |-> "c2",
     marked_at |-> 0, notes |-> <<>>, created_at |-> 0]
InitialAttendance == {<<>>, <<SeedRecord>>}

\* indexes of the documents matching the three Query.equal filters
MatchingRecords(classId, studentId, classDate) ==
    {i \in 1..Len(attendance) :
        /\ attendance[i].class_id = classId
        /\ attendance[i].student_id = studentId
        /\ attendance[i].class_date = classDate}

Min(S) == CHOOSE x \in S : \A y \in S : x <= y

\* getAttendanceRecord's result when listDocuments resolves: documents[0] or null
\* (data is a sequence of at most one document; <<>> is null)
GetAttendanceRecordOk(classId, studentId, classDate) ==
    LET m == MatchingRecords(classId, studentId, classDate)
    IN [success |-> TRUE,
        data |-> IF m # {} THEN <<attendance[Min(m)]>> ELSE <<>>]

\* getAttendanceRecord's result when listDocuments rejects (data is undefined)
GetAttendanceRecordFailed(err) ==
    [success |-> FALSE, data |-> <<>>, error |-> err.message]

\* the attendanceDocument built by markAttendance
AttendanceDocument(data, now) ==
    [class_id |-> data.class_id,
     student_id |-> data.student_id,
     class_date |-> data.class_date,
     is_present |-> EncodeBool(data.is_present),
     payment_complete |-> EncodeBool(data.payment_complete),
     marked_by |-> data.marked_by,
     marked_at |-> now,
     notes |-> Trim(data.notes),
     created_at |-> now]

\* mutant: the update forgets payment_complete
UpdateFieldsNoPayment(doc) ==
    [is_present |-> doc.is_present,
     marked_by |-> doc.marked_by,
     marked_at |-> doc.marked_at,
     notes |-> doc.notes]

\* mutant: the update passes the whole attendanceDocument
UpdateFieldsWhole(doc) == doc

\* the partial document markAttendance passes to updateDocument
UpdateFields(doc) ==
    [is_present |-> doc.is_present,
     payment_complete |-> doc.payment_complete,
     marked_by |-> doc.marked_by,
     marked_at |-> doc.marked_at,
     notes |-> doc.notes]

\* mutant: the store keeps the document when it was marked later than the update
MergeFieldsNewerWins(old, fields) ==
    IF old.marked_at > fields.marked_at THEN old
    ELSE [f \in DOMAIN old |-> IF f \in DOMAIN fields THEN fields[f] ELSE old[f]]

\* the store's updateDocument: the given fields replace the stored ones
MergeFields(old, fields) ==
    [f \in DOMAIN old |-> IF f \in DOMAIN fields THEN fields[f] ELSE old[f]]

\* the store's createDocument with ID.unique()
NewDocument(doc) ==
    [f \in DOMAIN doc \cup {"id"} |-> IF f = "id" THEN Len(attendance) + 1 ELSE doc[f]]

\* the error message markAttendance's catch block returns
MarkErrorMessage(err) ==
    IF err.code = 400 THEN "Invalid attendance data. Please check all fields."
    ELSE IF err.code = 401 THEN "You are not authorized to mark attendance."
    ELSE IF err.code = 404 THEN "Database or collection not found. Please check your setup."
    ELSE IF err.message # "" THEN err.message
    ELSE "Failed to mark attendance. Please try again."

\* ------------------------------------------------------------ client frames
NoData ==
    [class_id |-> "", student_id |-> "", class_date |-> 0, is_present |-> FALSE,
     payment_complete |-> FALSE, marked_by |-> "", notes |-> <<>>]
NoExisting == [success |-> FALSE, data |-> <<>>]
NoReturn == [kind |-> "none"]

IdleFrame ==
    [pc |-> "idle", mode |-> "none", data |-> NoData, now |-> 0,
     existing |-> NoExisting, storeOk |-> TRUE,
     updates |-> <<>>, classId |-> "", classDate |-> 0, markedBy |-> "",
     i |-> 0, results |-> <<>>, errors |-> <<>>, ret |-> NoReturn,
     attempted |-> <<>>, persisted |-> <<>>]

MayFail == failures < MaxStoreFailures
CallBudget == IF Cardinality(active) > 1 THEN MaxConcCalls ELSE MaxCalls
NoRequest == [op |-> "none", client |-> "", id |-> 0, ok |-> TRUE]

\* the frame of a markAttendance call that has read the clock and awaits the lookup
\* (attempted: history of the students markAttendance was invoked for)
EnterMark(f, data, now) ==
    [f EXCEPT !.pc = "lookup", !.data = data, !.now = now,
              !.existing = NoExisting, !.storeOk = TRUE,
              !.attempted = Append(f.attempted, data.student_id)]

\* mutant: bulkUpdateAttendance drops a failed update without recording it
LeaveMarkSwallow(f, result) ==
    IF f.mode = "single"
    THEN [IdleFrame EXCEPT !.ret = result]
    ELSE [f EXCEPT !.pc = "loop", !.i = f.i + 1,
             !.data = NoData, !.now = 0, !.existing = NoExisting, !.storeOk = TRUE,
             !.results = IF result.success THEN Append(f.results, result.data)
                         ELSE f.results]

\* what the caller of markAttendance does with its result: a direct caller keeps
\* it; bulkUpdateAttendance files it under results or errors and moves on
LeaveMark(f, result) ==
    IF f.mode = "single"
    THEN [IdleFrame EXCEPT !.ret = result]
    ELSE [f EXCEPT !.pc = "loop", !.i = f.i + 1,
             !.data = NoData, !.now = 0, !.existing = NoExisting, !.storeOk = TRUE,
             !.results = IF result.success THEN Append(f.results, result.data)
                         ELSE f.results,
             !.errors = IF result.success THEN f.errors
                        ELSE Append(f.errors,
                                    [student_id |-> f.updates[f.i].student_id,
                                     error |-> result.error])]

(***************************************************************************)
(* AttendanceService.markAttendance, one step per await.                   *)
(***************************************************************************)
\* the values new Date() can return at the start of a call
ClockReadings == {t \in {clock, clock + 1} : t <= MaxClock}

\* history entry of a completed markAttendance call
Completed(f, result) == [data |-> f.data, result |-> result, storeOk |-> f.storeOk]

NoCall == [data |-> NoData, result |-> NoReturn, storeOk |-> TRUE]

Request(op, c, id, ok) == [op |-> op, client |-> c, id |-> id, ok |-> ok]

\* a direct call of markAttendance: reads the clock, then awaits getAttendanceRecord
MarkAttendance(c) ==
    /\ c \in active
    /\ att[c].pc = "idle"
    /\ calls < CallBudget
    /\ \E data \in MarkInputs(c), now \in ClockReadings :
        /\ clock' = now
        /\ att' = [att EXCEPT ![c] = EnterMark([IdleFrame EXCEPT !.mode = "single"],
                                               data, now)]
        /\ calls' = calls + 1
    /\ UNCHANGED <<attendance, uniqueIndex, lastReq, failures, hist, active>>
    /\ UNCHANGED <<bulkVars, dateVars, uiVars>>

\* getAttendanceRecord: the listDocuments round trip resolves or rejects; a
\* rejection is caught and returned as success=false
GetAttendanceRecord(c) ==
    /\ att[c].pc = "lookup"
    /\ LET d == att[c].data IN
        \/ /\ att' = [att EXCEPT ![c].pc = "write",
                        ![c].existing =
                            GetAttendanceRecordOk(d.class_id, d.student_id, d.class_date)]
           /\ lastReq' = Request("list", c, 0, TRUE)
           /\ UNCHANGED failures
        \/ /\ MayFail
           /\ \E err \in StoreErrors :
                att' = [att EXCEPT ![c].pc = "write", ![c].storeOk = FALSE,
                          ![c].existing = GetAttendanceRecordFailed(err)]
           /\ lastReq' = Request("list", c, 0, FALSE)
           /\ failures' = failures + 1
    /\ UNCHANGED <<attendance, uniqueIndex, clock, calls, hist, active>>
    /\ UNCHANGED <<bulkVars, dateVars, uiVars>>

\* `existingAttendance.success && existingAttendance.data`
TakesUpdateBranch(existing) == existing.success /\ existing.data # <<>>

\* the value markAttendance returns after a successful write
MarkSuccess(result, existing) ==
    [kind |-> "mark", success |-> TRUE, data |-> result,
     wasUpdate |-> existing.data # <<>>]

\* the value markAttendance's catch block returns
MarkFailure(err) ==
    [kind |-> "mark", success |-> FALSE, error |-> MarkErrorMessage(err)]

\* end of a markAttendance call of client c with the given result
FinishMark(c, result, wrote) ==
    /\ att' = [att EXCEPT ![c] =
                LET f == LeaveMark(att[c], result) IN
                IF wrote /\ f.mode = "bulk"
                THEN [f EXCEPT !.persisted = Append(f.persisted, att[c].data.student_id)]
                ELSE f]
    /\ hist' = IF active = {c}
               THEN <<hist[2], Completed(att[c], result)>>
               ELSE hist

\* the update branch: updateDocument on the id of the record found
UpdateDocument(c) ==
    /\ att[c].pc = "write"
    /\ TakesUpdateBranch(att[c].existing)
    /\ LET id == att[c].existing.data[1].id
           fields == UpdateFields(AttendanceDocument(att[c].data, att[c].now))
       IN
        \/ /\ \E i \in 1..Len(attendance) : attendance[i].id = id
           /\ LET i == CHOOSE i \in 1..Len(attendance) : attendance[i].id = id
                  doc == MergeFields(attendance[i], fields)
              IN /\ attendance' = [attendance EXCEPT ![i] = doc]
                 /\ FinishMark(c, MarkSuccess(doc, att[c].existing), TRUE)
           /\ lastReq' = Request("update", c, id, TRUE)
           /\ UNCHANGED failures
        \/ /\ MayFail
           /\ \E err \in StoreErrors :
                FinishMark(c, MarkFailure(err), FALSE)
           /\ lastReq' = Request("update", c, id, FALSE)
           /\ failures' = failures + 1
           /\ UNCHANGED attendance
    /\ UNCHANGED <<uniqueIndex, clock, calls, active>>
    /\ UNCHANGED <<bulkVars, dateVars, uiVars>>

\* the create branch: createDocument of the whole attendanceDocument; a store
\* set up with the unique attendance index rejects a second document of a triple
CreateDocument(c) ==
    /\ att[c].pc = "write"
    /\ ~TakesUpdateBranch(att[c].existing)
    /\ LET d == att[c].data
           doc == NewDocument(AttendanceDocument(d, att[c].now))
           taken == uniqueIndex
                    /\ MatchingRecords(d.class_id, d.student_id, d.class_date) # {}
       IN
        \/ /\ ~taken
           /\ attendance' = Append(attendance, doc)
           /\ FinishMark(c, MarkSuccess(doc, att[c].existing), TRUE)
           /\ lastReq' = Request("create", c, doc.id, TRUE)
           /\ UNCHANGED failures
        \/ /\ taken
           /\ FinishMark(c, MarkFailure(IndexConflict), FALSE)
           /\ lastReq' = Request("create", c, 0, FALSE)
           /\ failures' = failures + 1
           /\ UNCHANGED attendance
        \/ /\ ~taken
           /\ MayFail
           /\ \E err \in StoreErrors :
                FinishMark(c, MarkFailure(err), FALSE)
           /\ lastReq' = Request("create", c, 0, FALSE)
           /\ failures' = failures + 1
           /\ UNCHANGED attendance
    /\ UNCHANGED <<uniqueIndex, clock, calls, active>>
    /\ UNCHANGED <<bulkVars, dateVars, uiVars>>

(***************************************************************************)
(* AttendanceService.bulkUpdateAttendance.                                 *)
(***************************************************************************)
\* the data bulkUpdateAttendance returns after the loop
BulkResult(f) ==
    [kind |-> "bulk", success |-> TRUE,
     data |-> [successful |-> f.results,
               failed |-> f.errors,
               totalProcessed |-> Len(f.updates),
               successCount |-> Len(f.results),
               errorCount |-> Len(f.errors)]]

\* the attendanceData bulkUpdateAttendance builds for one update
BulkMarkData(f, update) ==
    [class_id |-> f.classId, student_id |-> update.student_id,
     class_date |-> f.classDate, is_present |-> update.is_present,
     payment_complete |-> update.payment_complete, marked_by |-> f.markedBy,
     notes |-> update.notes]

\* the call: takes the updates of a roster and enters the loop (the calls of
\* markAttendance it is going to make are counted here)
BulkUpdateAttendance(c) ==
    /\ c \in active
    /\ att[c].pc = "idle"
    /\ \E roster \in Rosters, k \in ClassIds, d \in ClassDates :
        /\ calls + Len(roster) <= CallBudget
        /\ calls' = calls + Len(roster)
        /\ \E updates \in UpdateInputs(roster) :
            att' = [att EXCEPT ![c] =
                      [IdleFrame EXCEPT !.pc = "loop", !.mode = "bulk",
                          !.updates = updates, !.classId = k, !.classDate = d,
                          !.markedBy = c, !.i = 1]]
    /\ UNCHANGED <<attendance, uniqueIndex, clock, lastReq, failures, hist, active>>
    /\ UNCHANGED <<bulkVars, dateVars, uiVars>>

\* one turn of the for-of loop: call markAttendance for the next update, or
\* return the summary when the updates are exhausted
BulkStep(c) ==
    /\ att[c].pc = "loop"
    /\ LET f == att[c] IN
        \/ /\ f.i <= Len(f.updates)
           /\ \E now \in ClockReadings :
               LET data == BulkMarkData(f, f.updates[f.i]) IN
                /\ clock' = now
                /\ att' = [att EXCEPT ![c] = EnterMark(f, data, now)]
        \/ /\ f.i > Len(f.updates)
           /\ att' = [att EXCEPT ![c].pc = "idle", ![c].mode = "none",
                                 ![c].ret = BulkResult(f)]
           /\ UNCHANGED clock
    /\ UNCHANGED <<attendance, uniqueIndex, lastReq, calls, failures, hist, active>>
    /\ UNCHANGED <<bulkVars, dateVars, uiVars>>

(***************************************************************************)
(* Calendar dates and JavaScript Date.                                     *)
(* A date string "YYYY-MM-DD" is the number of its day, day 0 being        *)
(* 2024-01-01 (a Monday): string order is day order.  A Date object is an  *)
(* instant, in hours since 2024-01-01T00:00Z.                              *)
(***************************************************************************)
EpochWeekday == 1    \* getUTCDay() of 2024-01-01
HoursPerDay == 24
DaysPerWeek == 7

\* the calendar weekday (0 = Sunday .. 6 = Saturday) of a date string
Weekday(d) == (d + EpochWeekday) % DaysPerWeek

\* time zones of the device: hours east of UTC in standard time, and the instant
\* at which clocks go forward one hour (-1: the zone has no such change)
NoDst == -1
DstDay == 2          \* the day whose night has the clock change in the zone with one
Zones ==
    {[std |-> -5, dstAt |-> NoDst],
     [std |-> 0, dstAt |-> NoDst],
     [std |-> 5, dstAt |-> NoDst],
     [std |-> 1, dstAt |-> DstDay * HoursPerDay + 1]}

\* local time minus UTC at instant h
ZoneOffset(z, h) == z.std + (IF z.dstAt # NoDst /\ h >= z.dstAt THEN 1 ELSE 0)

\* new Date("YYYY-MM-DD"): midnight UTC of the day
ParseDate(d) == d * HoursPerDay

\* date.toISOString().split('T')[0]: the UTC day of the instant
ToISODate(h) == h \div HoursPerDay

\* date.getDay(): the weekday of the instant's local day
GetDay(z, h) == ((h + ZoneOffset(z, h)) \div HoursPerDay + EpochWeekday) % DaysPerWeek

\* date.setDate(date.getDate() + 1): the same local wall-clock time on the next
\* local day; a wall-clock time is read with the offset in force before a clock
\* change when it falls in the skipped hour
NextLocalDay(z, h) ==
    LET wall == h + ZoneOffset(z, h) + HoursPerDay
        asStd == wall - z.std
    IN IF z.dstAt = NoDst \/ asStd <= z.dstAt THEN asStd ELSE asStd - 1

RECURSIVE DateLoop(_, _, _, _, _)
\* the for loop of generateDateRange from instant date on
DateLoop(z, date, end, selectedDays, skipSet) ==
    IF date > end THEN <<>>
    ELSE LET dateString == ToISODate(date)
             dayOfWeek == GetDay(z, date)
         IN (IF dayOfWeek \in selectedDays /\ dateString \notin skipSet
             THEN <<dateString>> ELSE <<>>)
            \o DateLoop(z, NextLocalDay(z, date), end, selectedDays, skipSet)

\* mutant: a range given backwards is walked from its earlier end
GenerateDateRangeEitherWay(z, startDate, endDate, selectedDays, skipDates) ==
    IF startDate <= endDate
    THEN DateLoop(z, ParseDate(startDate), ParseDate(endDate), selectedDays, skipDates)
    ELSE DateLoop(z, ParseDate(endDate), ParseDate(startDate), selectedDays, skipDates)

\* ClassService.generateDateRange on a device in zone z
GenerateDateRange(z, startDate, endDate, selectedDays, skipDates) ==
    DateLoop(z, ParseDate(startDate), ParseDate(endDate), selectedDays, skipDates)

(***************************************************************************)
(* The classes collection and the bulk planner (previewBulkClasses).       *)
(* The collection is a set of documents: ID.unique() gives each an opaque  *)
(* id, here the pair of its creator and the creator's count.               *)
(***************************************************************************)
Morning == "Morning batch (8:00-10:00)"
Evening == "Evening batch (4:00-6:00)"
TIME_OPTIONS == <<Morning, Evening>>
MAX_BULK_SIZE == 100
RANGE_LIMIT == 500
PAUSE_EVERY == 10

\* the order of the time strings the store sorts by
TimeRank(t) == IF t = "09:00" THEN 0 ELSE IF t = Evening THEN 1 ELSE 2

KeyOf(x) == <<x.date, x.time>>
KeyLeq(x, y) ==
    \/ x.date < y.date
    \/ x.date = y.date /\ TimeRank(x.time) <= TimeRank(y.time)

\* a class document as createClass writes it (of its fields, those the
\* planner and the committer read or set per draft)
ClassDocument(id, classData) ==
    [id |-> id,
     title |-> classData.title,
     date |-> classData.date,
     time |-> classData.time,
     max_participants |-> IF classData.max_participants # 0
                          THEN classData.max_participants ELSE 20]

\* a draft of the preview
Draft(date, time) ==
    [title |-> "Football Training",
     date |-> date,
     time |-> time,
     max_participants |-> 20]

RECURSIVE PreviewTimesFirst(_, _)
\* mutant: the loops nested the other way round (times outer, dates inner)
PreviewTimesFirst(dates, times) ==
    IF times = <<>> THEN <<>>
    ELSE [j \in 1..Len(dates) |-> Draft(dates[j], Head(times))]
         \o PreviewTimesFirst(dates, Tail(times))

RECURSIVE PreviewClasses(_, _)
\* dates.forEach(date => selectedTimes.forEach(time => previewClasses.push(...)))
PreviewClasses(dates, times) ==
    IF dates = <<>> THEN <<>>
    ELSE [j \in 1..Len(times) |-> Draft(Head(dates), times[j])]
         \o PreviewClasses(Tail(dates), times)

\* the documents getClassesInDateRange lists: date within the range, ordered by
\* date and time, at most RANGE_LIMIT of them
ClassesInDateRange(startDate, endDate) ==
    LET inRange == {x \in classes : startDate <= x.date /\ x.date <= endDate}
    IN IF Cardinality(inRange) <= RANGE_LIMIT THEN inRange
       ELSE CHOOSE T \in SUBSET inRange :
                /\ Cardinality(T) = RANGE_LIMIT
                /\ \A x \in T, y \in inRange \ T : KeyLeq(x, y)

\* the ways the listing can order documents of equal date and time: for each
\* slot, the document Array.find meets first
FirstOfSlot(existing) ==
    LET slots == {KeyOf(x) : x \in existing}
    IN {f \in [slots -> existing] : \A k \in slots : KeyOf(f[k]) = k}

RECURSIVE Conflicts(_, _)
\* the conflicts previewBulkClasses collects, first being the document found
\* for each taken slot
Conflicts(preview, first) ==
    IF preview = <<>> THEN <<>>
    ELSE (IF KeyOf(Head(preview)) \in DOMAIN first
          THEN <<[date |-> Head(preview).date, time |-> Head(preview).time,
                  existingClass |-> first[KeyOf(Head(preview))]]>>
          ELSE <<>>)
         \o Conflicts(Tail(preview), first)


\* mutant: the conflicting drafts are left out whether asked to or not
ClassesToCreateAlwaysSkip(preview, conflicts, skipConflicts) ==
    LET conflictSet == {KeyOf(conflicts[i]) : i \in 1..Len(conflicts)}
    IN SelectIdx(preview, {i \in 1..Len(preview) : KeyOf(preview[i]) \notin conflictSet}, 1)

\* classesToCreate: the preview without the conflicting drafts when asked to
ClassesToCreate(preview, conflicts, skipConflicts) ==
    IF skipConflicts /\ Len(conflicts) > 0
    THEN LET conflictSet == {KeyOf(conflicts[i]) : i \in 1..Len(conflicts)}
         IN SelectIdx(preview,
                      {i \in 1..Len(preview) : KeyOf(preview[i]) \notin conflictSet}, 1)
    ELSE preview

\* mutant: the cap lets one class too many through
TooLargeOffByOne(classesToCreate) == Len(classesToCreate) > MAX_BULK_SIZE + 1

\* `classesToCreate.length > MAX_BULK_SIZE`
TooLarge(classesToCreate) == Len(classesToCreate) > MAX_BULK_SIZE

\* mutant: the conflicts are reported as skipped whether they were or not
SkippedAlways(conflicts, skipConflicts) ==
    [i \in 1..Len(conflicts) |->
        [date |-> conflicts[i].date, time |-> conflicts[i].time,
         reason |-> "Conflict with existing class"]]

\* results.skipped after the loop
Skipped(conflicts, skipConflicts) ==
    IF skipConflicts
    THEN [i \in 1..Len(conflicts) |->
            [date |-> conflicts[i].date, time |-> conflicts[i].time,
             reason |-> "Conflict with existing class"]]
    ELSE <<>>

\* ------------------------------------------------------- the bulk call frame
NoBulkData ==
    [startDate |-> 0, endDate |-> 0, selectedDays |-> {}, selectedTimes |-> <<>>,
     skipDates |-> {}, skipConflicts |-> TRUE]

\* pc: "idle", "range" (awaiting getClassesInDateRange), "create" (the loop is
\* at candidate i, counted from 0 as in the source), "pause", "done"
\* seen, readOk, failed and pauses are history: the documents in the range when
\* the conflict check read the store, whether that read succeeded, the loop
\* indexes whose create failed and those followed by a pause; late is history
\* too: the slots other clients added a class at after the conflict check, each
\* with the number of creates the commit had attempted by then
IdleBulk ==
    [pc |-> "idle", data |-> NoBulkData, dates |-> <<>>, previewClasses |-> <<>>,
     totalClasses |-> 0, conflicts |-> <<>>, classesToCreate |-> <<>>, i |-> 0,
     created |-> <<>>, skipped |-> <<>>, errors |-> <<>>, ret |-> NoReturn,
     seen |-> {}, readOk |-> TRUE, failed |-> {}, pauses |-> {},
     outstanding |-> {}, issued |-> <<>>, late |-> {}]

(***************************************************************************)
(* Batch-time labels (AttendanceModal and ClassesScreen).  A label is a    *)
(* sequence of tokens; the white-space tokens are characters.  A value of  *)
(* the program is a string, null/undefined, or an object that is not a     *)
(* string; an exception thrown is carried as a value of kind TypeError.    *)
(***************************************************************************)
Str(chars) == [kind |-> "string", chars |-> chars]
Absent == [kind |-> "absent", chars |-> <<>>]
Inherited(name) == [kind |-> "object", chars |-> name]
TypeError == [kind |-> "TypeError", chars |-> <<>>]

\* `!v` for a string or a missing value
Falsy(v) == v.kind = "absent" \/ v = Str(<<>>)

MorningLabel == <<"Morning", " ", "batch", " ", "(8:00-10:00)">>
EveningLabel == <<"Evening", " ", "batch", " ", "(4:00-6:00)">>
CanonicalLabels == {MorningLabel, EveningLabel}

\* the keys of batchMappings that map to the morning and to the evening batch
MorningKeys ==
    {<<"Morning", " ", "(8-10)">>, <<"06:00", " ", "-", " ", "07:00">>,
     <<"08:00", " ", "-", " ", "10:00">>, <<"8:00-10:00">>}
EveningKeys ==
    {<<"Evening", " ", "(4-6)">>, <<"16:00", " ", "-", " ", "18:00">>,
     <<"04:00", " ", "-", " ", "06:00">>, <<"4:00-6:00">>}
batchMappings ==
    [k \in MorningKeys \cup EveningKeys |->
        IF k \in MorningKeys THEN MorningLabel ELSE EveningLabel]

\* property names every object literal inherits from Object.prototype: the
\* lookup batchMappings[name] finds them, with a value that is not a string
ObjectPrototype == {<<"constructor">>, <<"toString">>}

\* String.prototype.toLowerCase, token by token
LowerToken(t) ==
    CASE t \in {"Morning", "MORNING"} -> "morning"
      [] t \in {"Evening", "EVENING"} -> "evening"
      [] t \in {"Batch", "BATCH"} -> "batch"
      [] t = "Afternoon" -> "afternoon"
      [] t = "A@X.io" -> "a@x.io"
      [] OTHER -> t
ToLowerCase(s) == [i \in 1..Len(s) |-> LowerToken(s[i])]

RECURSIVE CollapseSpaces(_)
\* replace(/\s+/g, ' '): every run of white space becomes one blank
CollapseSpaces(s) ==
    IF s = <<>> THEN <<>>
    ELSE IF Head(s) \in WhiteSpace
         THEN IF Len(s) > 1 /\ s[2] \in WhiteSpace
              THEN CollapseSpaces(Tail(s))
              ELSE <<" ">> \o CollapseSpaces(Tail(s))
         ELSE <<Head(s)>> \o CollapseSpaces(Tail(s))

\* normalizeBatchTime; applied to the exception of an inner call it is not
\* run (the exception goes on), applied to an object it throws at .trim()
normalizeBatchTime(batchTime) ==
    IF batchTime.kind = "TypeError" THEN batchTime
    ELSE IF Falsy(batchTime) THEN Str(<<>>)
    ELSE IF batchTime.kind # "string" THEN TypeError
    ELSE LET normalizedTime == Trim(batchTime.chars)
         IN IF normalizedTime \in DOMAIN batchMappings
            THEN Str(batchMappings[normalizedTime])
            ELSE IF normalizedTime \in ObjectPrototype THEN Inherited(normalizedTime)
            ELSE Str(normalizedTime)

\* what a call gives: a boolean returned, or an exception thrown
Returned(b) == [threw |-> FALSE, value |-> b]
Threw == [threw |-> TRUE, value |-> FALSE]

\* mutant: the flexible comparison lower-cases the student's side only
timeMatchesOneSided(studentTime, classTime) ==
    IF Falsy(studentTime) \/ Falsy(classTime) THEN Returned(FALSE)
    ELSE LET normalizedStudentTime == normalizeBatchTime(studentTime)
             normalizedClassTime == normalizeBatchTime(classTime)
         IN IF normalizedStudentTime = normalizedClassTime THEN Returned(TRUE)
            ELSE IF normalizedStudentTime.kind # "string"
                    \/ normalizedClassTime.kind # "string" THEN Threw
            ELSE Returned(ToLowerCase(CollapseSpaces(normalizedStudentTime.chars))
                            = CollapseSpaces(normalizedClassTime.chars))

\* timeMatches: .toLowerCase() of a value that is not a string throws
timeMatches(studentTime, classTime) ==
    IF Falsy(studentTime) \/ Falsy(classTime) THEN Returned(FALSE)
    ELSE LET normalizedStudentTime == normalizeBatchTime(studentTime)
             normalizedClassTime == normalizeBatchTime(classTime)
         IN IF normalizedStudentTime = normalizedClassTime THEN Returned(TRUE)
            ELSE IF normalizedStudentTime.kind # "string"
                    \/ normalizedClassTime.kind # "string" THEN Threw
            ELSE Returned(ToLowerCase(CollapseSpaces(normalizedStudentTime.chars))
                            = ToLowerCase(CollapseSpaces(normalizedClassTime.chars)))

\* the labels tried: every key of the table, the canonical labels, the same
\* with white space around, in other case or spacing, unknown labels, the
\* empty and the blank string, and names inherited by the table
UnknownLabels ==
    {<<"Afternoon", " ", "(2-4)">>, <<"09:00">>, <<"morning", " ", "batch", " ", "(8:00-10:00)">>,
     <<"Morning", " ", "\t", "batch", " ", "(8:00-10:00)">>,
     <<"EVENING", " ", "BATCH", " ", "(4:00-6:00)">>}
Padded(l) == {<<" ">> \o l, l \o <<" ">>, <<"\t", " ">> \o l \o <<" ">>}
PlainLabels == MorningKeys \cup EveningKeys \cup CanonicalLabels \cup UnknownLabels
Labels ==
    PlainLabels \cup UNION {Padded(l) : l \in PlainLabels}
        \cup {<<>>, <<" ">>} \cup ObjectPrototype
LabelInputs == {Str(l) : l \in Labels} \cup {Absent}

NoTrial ==
    [op |-> "none", a |-> Absent, b |-> Absent, once |-> Absent, twice |-> Absent,
     ab |-> Returned(FALSE), ba |-> Returned(FALSE)]

\* the stats of the modal before any student is loaded
NoStats == [total |-> 0, present |-> 0, absent |-> 0, paymentComplete |-> 0,
            paymentPending |-> 0]

\* the attendance modal before it is shown (resetState): no student, no
\* attendance entry, no error (taps: the taps on its buttons so far)
ClosedModal ==
    [pc |-> "closed", classTime |-> Absent, loaded |-> <<>>, students |-> <<>>,
     error |-> "", attendanceOk |-> FALSE, attendanceData |-> <<>>,
     stats |-> NoStats, taps |-> 0]

(***************************************************************************)
(* The result objects of the service methods that wrap one store call.     *)
(* Of a method: the error codes its catch maps to a fixed message, the     *)
(* message it falls back to when the error has none ("": it has no         *)
(* fallback), and whether its success result carries a data field.         *)
(***************************************************************************)
ErrorCodes == {400, 401, 404, 409, 500}
\* what the store call of a method does: it resolves, or rejects with an error
\* of some code whose message may be missing
StoreOutcomes ==
    {[ok |-> TRUE, code |-> 0, message |-> ""]}
        \cup [ok : {FALSE}, code : ErrorCodes, message : {"", "Network request failed"}]

Method(service, name, codes, fallback, data) ==
    [service |-> service, name |-> name, codes |-> codes, fallback |-> fallback,
     data |-> data]

ClassServiceMethods ==
    {Method("ClassService", "createClass", {400, 401, 404},
            "Failed to create class. Please try again.", TRUE),
     Method("ClassService", "getClasses", {401},
            "Failed to load classes. Please try again.", TRUE),
     Method("ClassService", "getClassesInDateRange", {},
            "Failed to load classes for date range", TRUE),
     Method("ClassService", "updateClass", {404, 401},
            "Failed to update class. Please try again.", TRUE),
     Method("ClassService", "deleteClass", {404, 401},
            "Failed to delete class. Please try again.", FALSE)}
AttendanceServiceMethods ==
    {Method("AttendanceService", "getAttendanceRecord", {}, "", TRUE),
     Method("AttendanceService", "getAttendanceForClass", {401},
            "Failed to load attendance records. Please try again.", TRUE),
     Method("AttendanceService", "deleteAttendance", {404, 401},
            "Failed to delete attendance record. Please try again.", FALSE)}
StudentServiceMethods ==
    {Method("StudentService", "createStudent", {400, 401, 404, 409},
            "Failed to create student. Please try again.", TRUE),
     Method("StudentService", "getStudents", {401},
            "Failed to load students. Please try again.", TRUE),
     Method("StudentService", "getStudentsByBatchTime", {},
            "Failed to load students for batch time", TRUE),
     Method("StudentService", "updateStudent", {404, 401},
            "Failed to update student. Please try again.", TRUE),
     Method("StudentService", "deleteStudent", {404, 401},
            "Failed to delete student. Please try again.", FALSE),
     Method("StudentService", "checkDuplicateEmail", {}, "", FALSE)}

\* the message of the code in the catch blocks that test error.code
CodeMessage(code) ==
    CASE code = 400 -> "Invalid data. Please check all fields."
      [] code = 401 -> "You are not authorized."
      [] code = 404 -> "Not found."
      [] code = 409 -> "A student with this email already exists."
      [] OTHER -> ""

\* the catch block: the message of a mapped code, else error.message when it
\* is there, else the method's fallback
ErrorMessageOf(m, outcome) ==
    IF outcome.code \in m.codes THEN CodeMessage(outcome.code)
    ELSE IF outcome.message # "" THEN outcome.message
    ELSE m.fallback

\* the object the method resolves to
ServiceResult(m, outcome) ==
    IF outcome.ok
    THEN [success |-> TRUE, hasData |-> m.data, error |-> ""]
    ELSE [success |-> FALSE, hasData |-> FALSE, error |-> ErrorMessageOf(m, outcome)]

NoServiceCall ==
    [service |-> "none", name |-> "none",
     outcome |-> [ok |-> TRUE, code |-> 0, message |-> ""],
     result |-> [success |-> TRUE, hasData |-> FALSE, error |-> ""]]

(***************************************************************************)
(* The students collection and the add-student form (AddStudentModal).     *)
(***************************************************************************)
\* the collection without documents and without the unique email index
NoStudents == [docs |-> <<>>, uniqueEmail |-> FALSE]

\* what is typed into the email field: an address, the same in capitals or
\* with blanks around, and another address
EmailInputs == {<<"a@x.io">>, <<"A@X.io">>, <<" ", "a@x.io", " ">>, <<"b@x.io">>}

\* `email.toLowerCase().trim()` of checkDuplicateEmail
EmailKey(email) == Trim(ToLowerCase(email))

\* the email of studentDocument: handleSubmit trims, createStudent trims and
\* lower-cases
StudentEmail(email) == ToLowerCase(Trim(Trim(email)))

\* the documents Query.equal('email', key) finds
StudentsWithEmail(docs, key) == {i \in 1..Len(docs) : docs[i].email = key}

IdleFlow ==
    [pc |-> "idle", email |-> <<>>, flows |-> 0, failures |-> 0,
     checkFailed |-> FALSE, existed |-> FALSE, outcome |-> "none"]

\* `duplicateCheck.success && duplicateCheck.isDuplicate` is false
ProceedsToCreate(duplicateCheck) ==
    ~(duplicateCheck.success /\ duplicateCheck.isDuplicate)

(***************************************************************************)
(* Reading attendance back: getAttendanceForClass and getAttendanceStats.  *)
(***************************************************************************)
\* indexes of the documents matching Query.equal on class_id and class_date
ClassRecords(classId, classDate) ==
    {i \in 1..Len(attendance) :
        attendance[i].class_id = classId /\ attendance[i].class_date = classDate}

\* the orders Query.orderAsc('created_at') can list the documents S in:
\* ascending created_at, documents of equal created_at in any order
Listings(S) ==
    {p \in [1..Cardinality(S) -> S] :
        /\ \A i, j \in 1..Cardinality(S) : i # j => p[i] # p[j]
        /\ \A i, j \in 1..Cardinality(S) :
            i < j => attendance[p[i]].created_at <= attendance[p[j]].created_at}

\* the map of getAttendanceForClass: the string tokens become booleans
DecodeRecord(record) ==
    [record EXCEPT !.is_present = DecodeBool(record.is_present),
                   !.payment_complete = DecodeBool(record.payment_complete)]

\* the data of getAttendanceForClass when the store lists the documents in order p
AttendanceRecords(p) == [i \in 1..Len(p) |-> DecodeRecord(attendance[p[i]])]

\* Math.round((n / total) * 100), 0 for no record
Percentage(n, total) == IF total > 0 THEN (200 * n + total) \div (2 * total) ELSE 0

NullMarker == "null"
NullTime == -1

IsPresent(a) == a.is_present
IsPaid(a) == a.payment_complete
IsAbsent(a) == ~a.is_present
IsPending(a) == ~a.payment_complete

\* the stats object of getAttendanceStats for the records a
AttendanceStats(a) ==
    [totalStudents |-> Len(a),
     presentCount |-> SeqCount(a, IsPresent),
     absentCount |-> SeqCount(a, IsAbsent),
     paymentCompleteCount |-> SeqCount(a, IsPaid),
     paymentPendingCount |-> SeqCount(a, IsPending),
     attendancePercentage |-> Percentage(SeqCount(a, IsPresent), Len(a)),
     paymentPercentage |-> Percentage(SeqCount(a, IsPaid), Len(a)),
     lastMarkedBy |-> IF Len(a) > 0 THEN a[Len(a)].marked_by ELSE NullMarker,
     lastMarkedAt |-> IF Len(a) > 0 THEN a[Len(a)].marked_at ELSE NullTime]

(***************************************************************************)
(* The attendance map and the stats of the attendance modal.  An entry of  *)
(* attendanceData has is_present, payment_complete, notes and existing_id; *)
(* a field that is undefined or null is FALSE, the empty string or 0, as   *)
(* every reader of the entry tests it for truth.                           *)
(***************************************************************************)
NoRecordId == 0

\* attendanceMap[record.student_id] = { ... } for one record of the listing
EntryOfRecord(record) ==
    [is_present |-> record.is_present, payment_complete |-> record.payment_complete,
     notes |-> record.notes, existing_id |-> record.id]

\* the entry initialAttendance gives a student, and `prev[studentId]` of a
\* student that has no entry
DefaultEntry ==
    [is_present |-> FALSE, payment_complete |-> FALSE, notes |-> <<>>,
     existing_id |-> NoRecordId]

\* attendanceMap after the forEach over the records a: of several records of
\* one student the last one listed stays
AttendanceMap(a) ==
    [sid \in {a[i].student_id : i \in 1..Len(a)} |->
        LET last == CHOOSE i \in 1..Len(a) :
                        /\ a[i].student_id = sid
                        /\ \A j \in 1..Len(a) : a[j].student_id = sid => j <= i
        IN EntryOfRecord(a[last])]

\* initialAttendance: the default entry for every student of the roster
initialAttendance(roster) ==
    [sid \in {roster[i].id : i \in 1..Len(roster)} |-> DefaultEntry]

\* `attendanceData[studentId]`, an absent entry read as undefined
EntryAt(data, sid) == IF sid \in DOMAIN data THEN data[sid] ELSE DefaultEntry

\* `{ ...prev, [studentId]: entry }`
WithEntry(data, sid, entry) ==
    [x \in DOMAIN data \cup {sid} |-> IF x = sid THEN entry ELSE data[x]]

RECURSIVE WithEntries(_, _, _, _)
\* `{ ...prev, ...updatedAttendance }` of the mark-all buttons: the entry of
\* every student of the roster with field set to value
WithEntries(data, roster, field, value) ==
    IF roster = <<>> THEN data
    ELSE WithEntries(WithEntry(data, Head(roster).id,
                               [EntryAt(data, Head(roster).id) EXCEPT ![field] = value]),
                     Tail(roster), field, value)

\* calculateStats: total from the roster, the counts from every entry of
\* attendanceData
calculateStats(roster, data) ==
    LET total == Len(roster)
        present == Cardinality({sid \in DOMAIN data : data[sid].is_present})
        paymentComplete == Cardinality({sid \in DOMAIN data : data[sid].payment_complete})
    IN [total |-> total, present |-> present, absent |-> total - present,
        paymentComplete |-> paymentComplete, paymentPending |-> total - paymentComplete]

\* what renderStudentItem shows for a student of the roster
ShownFor(data, sid) ==
    IF sid \in DOMAIN data THEN data[sid]
    ELSE [is_present |-> FALSE, payment_complete |-> FALSE, notes |-> <<>>,
          existing_id |-> NoRecordId]

(***************************************************************************)
(* The Attendance screen (AttendanceScreen): its state, and the closures   *)
(* its callbacks hold.                                                     *)
(***************************************************************************)
Today == 0
UPCOMING_DAYS == 7
ALL_LIMIT == 50

DateFilters == {"today", "upcoming", "all"}

\* the state of the component at its first render; the callbacks registered by
\* the effects with an empty dependency list keep the loadClasses and the
\* loadAttendanceStats of this render
FirstRender == [dateFilter |-> "today", classes |-> {}, isLoading |-> TRUE]

\* the component mounted: loadInitialData is in flight.  Of the fields,
\* batched is the build (whether the state updates of one task are rendered
\* together), the fields from classEvents on are the environment and history
MountedScreen(batched) ==
    [dateFilter |-> FirstRender.dateFilter, classes |-> FirstRender.classes,
     attendanceStats |-> {}, isLoading |-> FirstRender.isLoading,
     loads |-> <<[fn |-> "loadInitialData", dateFilter |-> FirstRender.dateFilter,
                  classes |-> FirstRender.classes]>>,
     batched |-> batched, classEvents |-> 0, attendanceEvents |-> 0,
     sinceEvent |-> "none", userActions |-> 0, failed |-> FALSE, changes |-> 0]

NoScreen == [MountedScreen(FALSE) EXCEPT !.loads = <<>>, !.isLoading = FALSE]

\* the session before the provider is mounted
NoSession ==
    [user |-> "null", isLoading |-> TRUE, error |-> "null", isInitialized |-> FALSE,
     inFlight |-> <<>>, session |-> FALSE, account |-> FALSE, calls |-> 0, log |-> <<>>]

(***************************************************************************)
(* Quiescent values of the parts a specification does not exercise.        *)
(***************************************************************************)
BulkIdle ==
    /\ classes = <<>>
    /\ zone = [std |-> 0, dstAt |-> NoDst]
    /\ bulk = IdleBulk
    /\ createLog = <<>>
    /\ manual = 0

NoDates ==
    [called |-> FALSE, startDate |-> 0, endDate |-> 0, selectedDays |-> {},
     skipDates |-> {}, dates |-> <<>>]
DatesIdle == dr = NoDates

UiIdle ==
    /\ norm = NoTrial
    /\ modal = ClosedModal
    /\ svc = NoServiceCall
    /\ students = NoStudents
    /\ addFlow = IdleFlow
    /\ screen = NoScreen
    /\ auth = NoSession

(***************************************************************************)
(* Specification of the attendance service: two instructors' devices on    *)
(* one attendance collection.                                              *)
(***************************************************************************)
AttendanceIdle ==
    /\ attendance = <<>>
    /\ uniqueIndex = FALSE
    /\ clock = 0
    /\ att = [c \in Clients |-> IdleFrame]
    /\ lastReq = NoRequest
    /\ calls = 0
    /\ failures = 0
    /\ hist = <<NoCall, NoCall>>
    /\ active = {}

InitAtt ==
    /\ attendance \in InitialAttendance
    /\ uniqueIndex \in BOOLEAN
    /\ clock = 0
    /\ att = [c \in Clients |-> IdleFrame]
    /\ lastReq = NoRequest
    /\ calls = 0
    /\ failures = 0
    /\ hist = <<NoCall, NoCall>>
    /\ active = Clients
    /\ BulkIdle
    /\ DatesIdle
    /\ UiIdle

NextAtt ==
    \E c \in Clients :
        \/ MarkAttendance(c)
        \/ GetAttendanceRecord(c)
        \/ UpdateDocument(c)
        \/ CreateDocument(c)
        \/ BulkUpdateAttendance(c)
        \/ BulkStep(c)

SpecAtt == InitAtt /\ [][NextAtt]_vars

\* one device alone: its calls run one after the other
InitSeq ==
    /\ attendance \in InitialAttendance
    /\ uniqueIndex \in BOOLEAN
    /\ clock = 0
    /\ att = [c \in Clients |-> IdleFrame]
    /\ lastReq = NoRequest
    /\ calls = 0
    /\ failures = 0
    /\ hist = <<NoCall, NoCall>>
    /\ active = {"c1"}
    /\ BulkIdle
    /\ DatesIdle
    /\ UiIdle

SpecSeq == InitSeq /\ [][NextAtt]_vars

(***************************************************************************)
(* Properties of the attendance upsert.                                    *)
(***************************************************************************)
SameTriple(x, y) ==
    /\ x.class_id = y.class_id
    /\ x.student_id = y.student_id
    /\ x.class_date = y.class_date

\* two markAttendance calls of a lone client, run one after the other on one
\* triple that had no record, every store request of both succeeding, with
\* different is_present / payment_complete values
TwoSequentialSaves ==
    LET a == hist[1]
        b == hist[2]
    IN /\ a.result.kind = "mark" /\ b.result.kind = "mark"
       /\ SameTriple(a.data, b.data)
       /\ a.storeOk /\ b.storeOk
       /\ a.result.success /\ b.result.success
       /\ ~a.result.wasUpdate
       /\ \/ a.data.is_present # b.data.is_present
          \/ a.data.payment_complete # b.data.payment_complete

\* C1: after two sequential saves of one triple (all store calls succeeding,
\* the triple having no record before the first) the collection holds exactly
\* one record of the triple and its is_present and payment_complete are the
\* encoded values of the second save.
C1_RoundTrip ==
    TwoSequentialSaves =>
        LET b == hist[2].data
            m == MatchingRecords(b.class_id, b.student_id, b.class_date)
        IN /\ Cardinality(m) = 1
           /\ \A i \in m :
                /\ attendance[i].is_present = EncodeBool(b.is_present)
                /\ attendance[i].payment_complete = EncodeBool(b.payment_complete)

C1_Witness == TwoSequentialSaves /\ hist[2].result.wasUpdate

\* C2: the attendance collection holds at most one record per triple
\* (class_id, student_id, class_date), whatever the clients do and whichever
\* store requests fail.
C2_UniquePerTriple ==
    \A i, j \in 1..Len(attendance) :
        SameTriple(attendance[i], attendance[j]) => i = j

IdentityFields == {"id", "class_id", "student_id", "class_date", "created_at"}

\* C3: a markAttendance call that found a record issues an update on that
\* record's id and no create, and the update leaves id, class_id, student_id,
\* class_date and created_at of every record as they were; a create is issued
\* only when the lookup found no record, and it appends one record whose
\* created_at is the call's timestamp.
C3_InPlace ==
    [][\A c \in Clients :
        (att[c].pc = "write" /\ att'[c].pc # "write") =>
            LET ex == att[c].existing IN
            /\ ex.data # <<>> =>
                /\ lastReq'.op = "update"
                /\ lastReq'.client = c
                /\ lastReq'.id = ex.data[1].id
                /\ Len(attendance') = Len(attendance)
                /\ \A i \in 1..Len(attendance) :
                    /\ \A f \in IdentityFields : attendance'[i][f] = attendance[i][f]
                    /\ attendance[i].id # ex.data[1].id => attendance'[i] = attendance[i]
            /\ lastReq'.op = "create" =>
                /\ ex.data = <<>>
                /\ SubSeq(attendance', 1, Len(attendance)) = attendance
                /\ lastReq'.ok =>
                    /\ Len(attendance') = Len(attendance) + 1
                    /\ Last(attendance').created_at = att[c].now
                    /\ SameTriple(Last(attendance'), att[c].data)
                /\ ~lastReq'.ok => attendance' = attendance
      ]_vars

\* a record has been re-saved in place at a later time than it was created
C3_Witness ==
    /\ lastReq.op = "update" /\ lastReq.ok
    /\ \E i \in 1..Len(attendance) :
        /\ attendance[i].id = lastReq.id
        /\ attendance[i].marked_at > attendance[i].created_at
        /\ attendance[i].marked_by = lastReq.client

\* the students of a sequence of updates
StudentsOf(updates) == [i \in 1..Len(updates) |-> updates[i].student_id]

\* C4: when bulkUpdateAttendance returns, every update was attempted exactly
\* once in list order whichever writes failed, successCount + errorCount =
\* totalProcessed = number of updates, successCount is the number of updates
\* persisted, failed lists exactly the students whose write failed, and the
\* persisted updates are in the collection.
C4_PartialFailure ==
    \A c \in Clients :
        att[c].ret.kind = "bulk" =>
            LET f == att[c]
                d == f.ret.data
                all == StudentsOf(f.updates)
                lost == {i \in 1..Len(all) :
                            \A j \in 1..Len(f.persisted) : f.persisted[j] # all[i]}
            IN /\ f.ret.success
               /\ f.attempted = all
               /\ d.totalProcessed = Len(f.updates)
               /\ d.successCount + d.errorCount = d.totalProcessed
               /\ d.successCount = Len(f.persisted)
               /\ d.successCount = Len(d.successful)
               /\ StudentsOf(d.failed) = SelectIdx(all, lost, 1)
               /\ f.persisted = SelectIdx(all, (1..Len(all)) \ lost, 1)
               /\ \A i \in (1..Len(all)) \ lost :
                    \E r \in MatchingRecords(f.classId, all[i], f.classDate) :
                        /\ attendance[r].is_present = EncodeBool(f.updates[i].is_present)
                        /\ attendance[r].payment_complete =
                                EncodeBool(f.updates[i].payment_complete)

\* three updates of which the middle one's write failed
C4_Witness ==
    \E c \in Clients :
        /\ att[c].ret.kind = "bulk"
        /\ Len(att[c].updates) = 3
        /\ att[c].persisted = <<"s1", "s3">>
        /\ att[c].ret.data.successCount = 2
        /\ att[c].ret.data.errorCount = 1

(***************************************************************************)
(* Specification of generateDateRange called on its own, once, on a        *)
(* device in any of the zones.                                             *)
(***************************************************************************)
MaxDay == 8          \* last day of the date ranges tried
MaxSkip == 2         \* skip lists are drawn from days 1..MaxSkip

DaySets == {{}, {1}, {0, 6}, {1, 2, 3, 4, 5}, {0, 1, 2, 3, 4, 5, 6}}

GenerateDates ==
    /\ ~dr.called
    /\ \E startDate \in 0..MaxDay, endDate \in 0..MaxDay,
          selectedDays \in DaySets, skipDates \in SUBSET (1..MaxSkip) :
        dr' = [called |-> TRUE, startDate |-> startDate, endDate |-> endDate,
               selectedDays |-> selectedDays, skipDates |-> skipDates,
               dates |-> GenerateDateRange(zone, startDate, endDate,
                                           selectedDays, skipDates)]
    /\ UNCHANGED <<attVars, classes, zone, bulk, createLog, manual, uiVars>>

InitDates ==
    /\ AttendanceIdle
    /\ classes = <<>>
    /\ zone \in Zones
    /\ bulk = IdleBulk
    /\ createLog = <<>>
    /\ manual = 0
    /\ dr = NoDates
    /\ UiIdle

NextDates == GenerateDates

SpecDates == InitDates /\ [][NextDates]_vars

\* C10: every date generateDateRange returns has its calendar weekday in
\* selectedDays, lies in [startDate, endDate] and is not in skipDates, and the
\* dates are strictly ascending (so without duplicates).
C10_DatesSound ==
    dr.called =>
        /\ \A i \in 1..Len(dr.dates) :
            /\ Weekday(dr.dates[i]) \in dr.selectedDays
            /\ dr.startDate <= dr.dates[i] /\ dr.dates[i] <= dr.endDate
            /\ dr.dates[i] \notin dr.skipDates
        /\ \A i \in 1..(Len(dr.dates) - 1) : dr.dates[i] < dr.dates[i + 1]

(***************************************************************************)
(* ClassService.createBulkClasses, one step per await, next to another     *)
(* client that adds single classes.                                        *)
(***************************************************************************)
MaxBulkEnd == 3      \* last end date of the small plans
MaxFailIndex == 3    \* creates of a commit that can fail: the first MaxFailIndex
MaxManual == 1       \* classes added by the other client in one behaviour
MaxManualIndex == 3  \* the other client adds them before this turn of the loop

AllDays == {0, 1, 2, 3, 4, 5, 6}
WorkDays == {1, 2, 3, 4, 5}

\* plans of a few classes, and plans around the batch cap (two classes a day)
SmallPlans ==
    [startDate : {0}, endDate : 1..MaxBulkEnd, selectedDays : {WorkDays},
     selectedTimes : {<<Morning>>, <<Morning, Evening>>},
     skipDates : {{}, {1}}, skipConflicts : BOOLEAN]
LargePlans ==
    [startDate : {0},
     endDate : {MAX_BULK_SIZE \div 2},
     selectedDays : {AllDays}, selectedTimes : {<<Morning, Evening>>},
     skipDates : {{}}, skipConflicts : BOOLEAN]
\* the plans tried on a device of zone z: the large ones on the UTC device only
BulkInputs(z) ==
    IF z.std = 0 /\ z.dstAt = NoDst THEN SmallPlans \cup LargePlans ELSE SmallPlans

\* a class of the collection at the given slot
ExistingClass(id, date, time) ==
    ClassDocument(id, [Draft(date, time) EXCEPT !.title = "Training"])

\* the collection when the behaviour starts
InitialClasses ==
    {{},
     {ExistingClass(<<"init", 1>>, 1, Morning)},
     {ExistingClass(<<"init", 1>>, 1, Morning), ExistingClass(<<"init", 2>>, 2, Evening)},
     {ExistingClass(<<"init", 1>>, 1, Morning), ExistingClass(<<"init", 2>>, 1, Morning),
      ExistingClass(<<"init", 3>>, 2, "09:00")}}

\* the slots the other client adds classes at
ManualSlots == {<<1, Morning>>, <<3, Evening>>}

\* the error message createClass's catch block returns
CreateErrorMessage(err) ==
    IF err.code = 400 THEN "Invalid class data. Please check all fields."
    ELSE IF err.code = 401 THEN "You are not authorized to create classes."
    ELSE IF err.code = 404 THEN "Database or collection not found. Please check your setup."
    ELSE IF err.message # "" THEN err.message
    ELSE "Failed to create class. Please try again."

\* the value createBulkClasses returns after the loop
BulkSuccess(f) ==
    [kind |-> "bulkCreate", success |-> TRUE,
     data |-> [created |-> f.created, skipped |-> f.skipped, errors |-> f.errors]]

\* the value createBulkClasses returns when the batch is too large
BulkTooLarge(f) ==
    [kind |-> "bulkCreate", success |-> FALSE,
     error |-> <<"Bulk operation too large. Maximum", MAX_BULK_SIZE,
                 "classes per batch. You requested", Len(f.classesToCreate)>>]

\* the code after the loop: the skipped conflicts are added and the results returned
Finished(f) ==
    LET g == [f EXCEPT !.skipped = Skipped(f.conflicts, f.data.skipConflicts)]
    IN [g EXCEPT !.pc = "done", !.ret = BulkSuccess(g)]

\* mutant: the create of the next candidate is issued along with the one awaited
LoopAtAhead(f, i) ==
    IF i < Len(f.classesToCreate)
    THEN [f EXCEPT !.pc = "create", !.i = i,
             !.outstanding = f.outstanding \cup ({i, i + 1} \cap (0..(Len(f.classesToCreate) - 1))),
             !.issued = Append(f.issued, i)]
    ELSE Finished([f EXCEPT !.i = i])

RECURSIVE LoopAtRecheck(_, _)
\* mutant: each turn looks at the store again and passes over a candidate
\* whose slot is taken by now
LoopAtRecheck(f, i) ==
    IF i < Len(f.classesToCreate)
    THEN IF f.data.skipConflicts
            /\ \E x \in classes : KeyOf(x) = KeyOf(f.classesToCreate[i + 1])
         THEN LoopAtRecheck(f, i + 1)
         ELSE [f EXCEPT !.pc = "create", !.i = i,
                  !.outstanding = f.outstanding \cup {i},
                  !.issued = Append(f.issued, i)]
    ELSE Finished([f EXCEPT !.i = i])

\* the loop test `i < classesToCreate.length` at index i and, when it passes,
\* the call of createClass for candidate i, which is then awaited
LoopAt(f, i) ==
    IF i < Len(f.classesToCreate)
    THEN [f EXCEPT !.pc = "create", !.i = i,
             !.outstanding = f.outstanding \cup {i},
             !.issued = Append(f.issued, i)]
    ELSE Finished([f EXCEPT !.i = i])

\* mutant: the pause comes one turn late
PauseDueLate(i) == i > 0 /\ i % PAUSE_EVERY = 0

\* `i > 0 && (i + 1) % 10 === 0`
PauseDue(i) == i > 0 /\ (i + 1) % PAUSE_EVERY = 0

\* mutant: a failed create ends the loop
AfterCreateAbort(f, ok) ==
    IF ~ok THEN Finished(f)
    ELSE IF PauseDue(f.i) THEN [f EXCEPT !.pc = "pause", !.pauses = f.pauses \cup {f.i}]
    ELSE LoopAt(f, f.i + 1)

\* after createClass has resolved, with success or not: the pause when one is
\* due, else the next turn of the loop
AfterCreate(f, ok) ==
    IF PauseDue(f.i) THEN [f EXCEPT !.pc = "pause", !.pauses = f.pauses \cup {f.i}]
    ELSE LoopAt(f, f.i + 1)

\* createBulkClasses after the preview: the filter, the cap, the first turn
Commit(f) ==
    LET g == [f EXCEPT !.classesToCreate =
                ClassesToCreate(f.previewClasses, f.conflicts, f.data.skipConflicts)]
    IN IF TooLarge(g.classesToCreate)
       THEN [g EXCEPT !.pc = "done", !.ret = BulkTooLarge(g)]
       ELSE LoopAt(g, 0)

\* the call: previewBulkClasses generates the dates and the drafts, then awaits
\* getClassesInDateRange
CreateBulkClasses ==
    /\ bulk.pc = "idle"
    /\ \E data \in BulkInputs(zone) :
        LET dates == GenerateDateRange(zone, data.startDate, data.endDate,
                                       data.selectedDays, data.skipDates)
        IN bulk' = [IdleBulk EXCEPT !.pc = "range", !.data = data, !.dates = dates,
                       !.previewClasses = PreviewClasses(dates, data.selectedTimes),
                       !.totalClasses = Len(dates) * Len(data.selectedTimes)]
    /\ UNCHANGED <<classes, zone, createLog, manual>>
    /\ UNCHANGED <<attVars, dateVars, uiVars>>

\* getClassesInDateRange resolves or rejects (then no conflict is recorded);
\* the preview returns and createBulkClasses runs on to its first await
GetClassesInDateRange ==
    /\ bulk.pc = "range"
    /\ LET seen == {x \in classes : bulk.data.startDate <= x.date
                                    /\ x.date <= bulk.data.endDate}
           existing == ClassesInDateRange(bulk.data.startDate, bulk.data.endDate)
       IN \/ \E first \in FirstOfSlot(existing) :
                bulk' = Commit([bulk EXCEPT !.seen = seen, !.readOk = TRUE,
                                  !.conflicts = Conflicts(bulk.previewClasses, first)])
          \/ bulk' = Commit([bulk EXCEPT !.seen = seen, !.readOk = FALSE,
                                !.conflicts = <<>>])
    /\ UNCHANGED <<classes, zone, createLog, manual>>
    /\ UNCHANGED <<attVars, dateVars, uiVars>>

\* one turn of the loop: createClass for candidate i resolves with success or
\* with success=false (createClass catches every rejection itself)
CreateClass ==
    /\ bulk.pc = "create"
    /\ LET classData == bulk.classesToCreate[bulk.i + 1]
           doc == ClassDocument(<<"bulk", bulk.i>>, classData)
       IN /\ createLog' = Append(createLog, KeyOf(classData))
          /\ \/ /\ classes' = classes \cup {doc}
                /\ bulk' = AfterCreate([bulk EXCEPT !.created = Append(bulk.created, doc),
                                           !.outstanding = bulk.outstanding \ {bulk.i}],
                                       TRUE)
             \/ /\ bulk.i < MaxFailIndex
                /\ \E err \in StoreErrors :
                    bulk' = AfterCreate(
                        [bulk EXCEPT !.failed = bulk.failed \cup {bulk.i},
                            !.outstanding = bulk.outstanding \ {bulk.i},
                            !.errors = Append(bulk.errors,
                                [date |-> classData.date, time |-> classData.time,
                                 error |-> CreateErrorMessage(err)])],
                        FALSE)
                /\ UNCHANGED classes
    /\ UNCHANGED <<zone, manual>>
    /\ UNCHANGED <<attVars, dateVars, uiVars>>

\* the 500 ms timer of the rate-limiting pause fires
PauseOver ==
    /\ bulk.pc = "pause"
    /\ bulk' = LoopAt(bulk, bulk.i + 1)
    /\ UNCHANGED <<classes, zone, createLog, manual>>
    /\ UNCHANGED <<attVars, dateVars, uiVars>>

\* another client creates a single class (createClass from the add-class form)
\* before or while the bulk call runs
ManualCreate ==
    /\ manual < MaxManual
    /\ bulk.pc # "done"
    /\ bulk.i < MaxManualIndex
    /\ bulk.data \notin LargePlans
    /\ \E slot \in ManualSlots :
        /\ classes' = classes \cup {ExistingClass(<<"other", manual + 1>>, slot[1], slot[2])}
        /\ bulk' = IF bulk.pc \in {"idle", "range"} THEN bulk
                   ELSE [bulk EXCEPT !.late = @ \cup {[key |-> slot, at |-> Len(createLog)]}]
    /\ manual' = manual + 1
    /\ UNCHANGED <<zone, createLog>>
    /\ UNCHANGED <<attVars, dateVars, uiVars>>

InitBulk ==
    /\ AttendanceIdle
    /\ DatesIdle
    /\ UiIdle
    /\ classes \in InitialClasses
    /\ zone \in Zones
    /\ bulk = IdleBulk
    /\ createLog = <<>>
    /\ manual = 0

NextBulk ==
    \/ CreateBulkClasses
    \/ GetClassesInDateRange
    \/ CreateClass
    \/ PauseOver
    \/ ManualCreate

SpecBulk == InitBulk /\ [][NextBulk]_vars

(***************************************************************************)
(* Properties of the bulk planner and committer.                           *)
(***************************************************************************)
KeysOf(xs) == [i \in 1..Len(xs) |-> KeyOf(xs[i])]

\* the conflict check has run (the preview has returned)
Checked == bulk.pc \notin {"idle", "range"}

\* a class of the store, inside the range when the conflict check ran, at the slot
TakenAtCheck(key) == \E e \in bulk.seen : KeyOf(e) = key

\* C5: with skipConflicts=true no create is issued for a candidate whose
\* (date, time) is that of a class persisted inside [startDate, endDate] when
\* the conflict check ran, and the skipped list returned has an entry with that
\* date and time and the reason "Conflict with existing class".
C5_SkipsConflicts ==
    (Checked /\ bulk.data.skipConflicts) =>
        /\ \A k \in 1..Len(createLog) : ~TakenAtCheck(createLog[k])
        /\ (bulk.pc = "done" /\ bulk.ret.success) =>
            \A i \in 1..Len(bulk.previewClasses) :
                TakenAtCheck(KeyOf(bulk.previewClasses[i])) =>
                    \E j \in 1..Len(bulk.ret.data.skipped) :
                        bulk.ret.data.skipped[j] =
                            [date |-> bulk.previewClasses[i].date,
                             time |-> bulk.previewClasses[i].time,
                             reason |-> "Conflict with existing class"]

\* the same, for the commits whose range query resolved
C5_WhenReadSucceeds == bulk.readOk => C5_SkipsConflicts

\* C6 as claimed: a plan of more than 100 candidates (totalClasses) makes
\* createBulkClasses return success=false before any create, with no created,
\* skipped or errors entries.
C6_CapOnPlan ==
    (Checked /\ bulk.totalClasses > MAX_BULK_SIZE) =>
        /\ createLog = <<>>
        /\ bulk.pc = "done"
        /\ ~bulk.ret.success
        /\ bulk.created = <<>> /\ bulk.skipped = <<>> /\ bulk.errors = <<>>

\* C6 amended: when more than 100 candidates are left to create after the
\* conflicting ones were filtered out (skipConflicts) the call returns
\* success=false before any create, with no created, skipped or errors entries.
C6_CapOnCreates ==
    (Checked /\ Len(bulk.classesToCreate) > MAX_BULK_SIZE) =>
        /\ createLog = <<>>
        /\ bulk.pc = "done"
        /\ ~bulk.ret.success
        /\ bulk.created = <<>> /\ bulk.skipped = <<>> /\ bulk.errors = <<>>
        /\ \A x \in classes : x.id[1] # "bulk"

C6_Witness ==
    /\ bulk.pc = "done"
    /\ ~bulk.ret.success
    /\ Len(bulk.classesToCreate) > MAX_BULK_SIZE
    /\ Len(bulk.conflicts) > 0

\* a plan of more than 100 candidates is being committed
C6_PlanOverCapCommitted ==
    /\ bulk.totalClasses > MAX_BULK_SIZE
    /\ bulk.pc = "done"
    /\ bulk.ret.success
    /\ Len(bulk.created) = MAX_BULK_SIZE

\* the creates attempted so far in the loop
Attempts ==
    IF bulk.pc = "create" THEN bulk.i
    ELSE IF bulk.pc = "pause" THEN bulk.i + 1
    ELSE Len(bulk.classesToCreate)

\* C7: whichever creates fail, every candidate selected for creation is
\* attempted exactly once, in order; each attempted candidate is in exactly
\* one of created and errors, a failed one in errors with its date and time;
\* and the call returns success=true.
C7_FailureIsolation ==
    (Checked /\ ~TooLarge(bulk.classesToCreate)) =>
        LET keys == KeysOf(bulk.classesToCreate)
            tried == 1..Attempts
            bad == {i \in tried : (i - 1) \in bulk.failed}
        IN /\ createLog = SubSeq(keys, 1, Attempts)
           /\ KeysOf(bulk.errors) = SelectIdx(keys, bad, 1)
           /\ KeysOf(bulk.created) = SelectIdx(keys, tried \ bad, 1)
           /\ Len(bulk.created) + Len(bulk.errors) = Attempts
           /\ bulk.pc = "done" =>
                /\ bulk.ret.success
                /\ Attempts = Len(bulk.classesToCreate)
                /\ bulk.ret.data.created = bulk.created
                /\ bulk.ret.data.errors = bulk.errors

\* a commit has returned in which a create failed and a later one succeeded
C7_Witness ==
    /\ bulk.pc = "done"
    /\ bulk.ret.success
    /\ \E i \in bulk.failed :
        /\ i + 1 < Len(bulk.classesToCreate)
        /\ (i + 1) \notin bulk.failed
    /\ Len(bulk.errors) > 0 /\ Len(bulk.created) > 0

\* C8: previewClasses holds one draft per date of generateDateRange and
\* selected time, dates outer and times inner; totalClasses is its length and
\* the number of dates times the number of times; the conflicting candidates
\* stay in it.
C8_CartesianProduct ==
    bulk.pc # "idle" =>
        LET d == bulk.data
            dates == GenerateDateRange(zone, d.startDate, d.endDate,
                                       d.selectedDays, d.skipDates)
            nT == Len(d.selectedTimes)
        IN /\ Len(bulk.previewClasses) = Len(dates) * nT
           /\ bulk.totalClasses = Len(bulk.previewClasses)
           /\ \A k \in 1..Len(bulk.previewClasses) :
                /\ bulk.previewClasses[k].date = dates[((k - 1) \div nT) + 1]
                /\ bulk.previewClasses[k].time = d.selectedTimes[((k - 1) % nT) + 1]

\* a preview of several dates and two times, one of its candidates in conflict
C8_Witness ==
    /\ Checked
    /\ Len(bulk.conflicts) > 0
    /\ Len(bulk.data.selectedTimes) = 2
    /\ Len(bulk.dates) >= 2
    /\ bulk.totalClasses = Len(bulk.dates) * 2

\* C9: the conflicts list has an entry for a candidate exactly when the store
\* holds, inside [startDate, endDate], a class of the candidate's date and
\* time; the entry's existingClass is one of those classes.
C9_ConflictDetection ==
    Checked =>
        /\ \A i \in 1..Len(bulk.previewClasses) :
            LET key == KeyOf(bulk.previewClasses[i]) IN
            (\E j \in 1..Len(bulk.conflicts) : KeyOf(bulk.conflicts[j]) = key)
                <=> TakenAtCheck(key)
        /\ \A j \in 1..Len(bulk.conflicts) :
            /\ bulk.conflicts[j].existingClass \in bulk.seen
            /\ KeyOf(bulk.conflicts[j].existingClass) = KeyOf(bulk.conflicts[j])

\* the same, for the previews whose range query resolved
C9_WhenReadSucceeds == bulk.readOk => C9_ConflictDetection

(***************************************************************************)
(* Further properties of generateDateRange.                                *)
(***************************************************************************)
\* C11: every calendar day of [startDate, endDate] whose weekday is in
\* selectedDays and which is not in skipDates is in the output; 2024-01-01
\* .. 2024-01-07 with weekdays {1,2,3,4,5} and no skips gives exactly
\* 2024-01-01 .. 2024-01-05.
C11_DatesComplete ==
    dr.called =>
        /\ \A d \in dr.startDate..dr.endDate :
            (Weekday(d) \in dr.selectedDays /\ d \notin dr.skipDates) =>
                \E i \in 1..Len(dr.dates) : dr.dates[i] = d
        /\ (dr.startDate = 0 /\ dr.endDate = 6 /\ dr.selectedDays = WorkDays
                /\ dr.skipDates = {}) => dr.dates = <<0, 1, 2, 3, 4>>

\* the same on a device whose local day is the UTC day at every midnight UTC
C11_OnUtcDevice == (zone.std = 0 /\ zone.dstAt = NoDst) => C11_DatesComplete

\* C12: with no weekday selected the output is empty for every range and skip
\* list, and with startDate later than endDate the output is empty.
C12_EmptyResults ==
    dr.called =>
        /\ dr.selectedDays = {} => dr.dates = <<>>
        /\ dr.startDate > dr.endDate => dr.dates = <<>>

\* a backwards range over days of which some are selected and not skipped
C12_Witness ==
    /\ dr.called
    /\ dr.startDate > dr.endDate
    /\ \E d \in dr.endDate..dr.startDate :
        Weekday(d) \in dr.selectedDays /\ d \notin dr.skipDates
    /\ dr.dates = <<>>

\* a forward range of several days with no weekday selected
C12_NoDaySelected ==
    /\ dr.called
    /\ dr.selectedDays = {}
    /\ dr.startDate + 1 < dr.endDate
    /\ dr.dates = <<>>

(***************************************************************************)
(* normalizeBatchTime and timeMatches applied to the labels.               *)
(***************************************************************************)
NormalizeBatchTime ==
    /\ norm.op = "none"
    /\ \E x \in LabelInputs :
        norm' = [NoTrial EXCEPT !.op = "normalize", !.a = x,
                    !.once = normalizeBatchTime(x),
                    !.twice = normalizeBatchTime(normalizeBatchTime(x))]
    /\ UNCHANGED <<attVars, bulkVars, dateVars, modal, svc, students, addFlow, screen, auth>>

TimeMatches ==
    /\ norm.op = "none"
    /\ \E a \in LabelInputs, b \in LabelInputs :
        norm' = [NoTrial EXCEPT !.op = "matches", !.a = a, !.b = b,
                    !.ab = timeMatches(a, b), !.ba = timeMatches(b, a)]
    /\ UNCHANGED <<attVars, bulkVars, dateVars, modal, svc, students, addFlow, screen, auth>>

InitLabels ==
    /\ AttendanceIdle
    /\ BulkIdle
    /\ DatesIdle
    /\ UiIdle

NextLabels == NormalizeBatchTime \/ TimeMatches

SpecLabels == InitLabels /\ [][NextLabels]_vars

\* C13: normalizeBatchTime applied twice gives what it gives applied once, for
\* every key of the table, canonical label and unknown label, with or without
\* white space around; and a key of the table gives a canonical label.
C13_Idempotent ==
    norm.op = "normalize" =>
        /\ norm.twice = norm.once
        /\ (norm.a.kind = "string" /\ Trim(norm.a.chars) \in DOMAIN batchMappings) =>
            norm.once \in {Str(l) : l \in CanonicalLabels}

\* the same for the labels that are no property name inherited by the table
C13_OnOwnKeys ==
    (norm.op = "normalize" /\ Trim(norm.a.chars) \notin ObjectPrototype) => C13_Idempotent

\* C14: timeMatches(a, b) and timeMatches(b, a) have the same outcome, for
\* empty, missing, legacy, canonical and unknown labels.
C14_Symmetric == norm.op = "matches" => norm.ab = norm.ba

\* two different labels, one a padded legacy key, that match both ways
C14_Witness ==
    /\ norm.op = "matches"
    /\ norm.a # norm.b
    /\ norm.a.chars \in UNION {Padded(k) : k \in MorningKeys}
    /\ norm.b.chars \notin DOMAIN batchMappings
    /\ norm.b.chars \notin CanonicalLabels
    /\ norm.ab = Returned(TRUE)
    /\ norm.ba = Returned(TRUE)

(***************************************************************************)
(* The attendance modal: loadAttendanceData, one step per await.           *)
(***************************************************************************)
MaxLoaded == 3       \* students the students collection holds

StudentBatchTimes ==
    {Str(MorningLabel), Str(<<"Evening", " ", "(4-6)">>),
     Str(<<"morning", " ", "batch", " ", "(8:00-10:00)">>), Absent, Str(<<"toString">>)}
ClassTimes ==
    {Absent, Str(<<>>), Str(MorningLabel), Str(<<" ", "8:00-10:00">>),
     Str(EveningLabel), Str(<<"09:00">>)}
StudentIds == <<"s1", "s2", "s3">>
StudentLists ==
    UNION {[1..n -> StudentBatchTimes] : n \in 0..MaxLoaded}
StudentDocs(times) == [i \in 1..Len(times) |-> [id |-> StudentIds[i], batch_time |-> times[i]]]

\* the callback of studentsResult.data.filter
Included(student, classTime) ==
    IF Falsy(classTime) THEN Returned(TRUE)
    ELSE timeMatches(student.batch_time, classTime)

FilterThrows(loaded, classTime) ==
    \E i \in 1..Len(loaded) : Included(loaded[i], classTime).threw
FilteredStudents(loaded, classTime) ==
    SelectIdx(loaded, {i \in 1..Len(loaded) : Included(loaded[i], classTime).value}, 1)

\* the modal becomes visible with a class: loadAttendanceData runs up to the
\* await of getStudentsBySport
LoadAttendanceData ==
    /\ modal.pc = "closed"
    /\ \E classTime \in ClassTimes :
        modal' = [ClosedModal EXCEPT !.pc = "students", !.classTime = classTime]
    /\ UNCHANGED <<attVars, bulkVars, dateVars, norm, svc, students, addFlow, screen, auth>>

\* getStudentsBySport resolves: on failure the catch sets the error; on success
\* the students are filtered (an exception of the callback goes to the catch)
\* and the function runs on to the await of getAttendanceForClass
GetStudentsBySport ==
    /\ modal.pc = "students"
    /\ \/ modal' = [modal EXCEPT !.pc = "failed",
                        !.error = "Failed to load students. Please try again."]
       \/ \E times \in StudentLists :
            LET loaded == StudentDocs(times) IN
            IF FilterThrows(loaded, modal.classTime)
            THEN modal' = [modal EXCEPT !.pc = "failed", !.loaded = loaded,
                              !.error = "normalizedStudentTime.toLowerCase is not a function"]
            ELSE LET roster == FilteredStudents(loaded, modal.classTime) IN
                 modal' = [modal EXCEPT !.pc = "attendance", !.loaded = loaded,
                              !.students = roster,
                              !.stats = calculateStats(roster, modal.attendanceData)]
    /\ UNCHANGED <<attVars, bulkVars, dateVars, norm, svc, students, addFlow, screen, auth>>

\* the class and the date the modal is opened for
ModalClassId == "k1"
ModalClassDate == 1

\* end of loadAttendanceData with the attendance data set; the effect on
\* [attendanceData, students] recalculates the stats
Loaded(f, ok, data) ==
    [f EXCEPT !.pc = "ready", !.attendanceOk = ok, !.attendanceData = data,
              !.stats = calculateStats(f.students, data)]

\* getAttendanceForClass resolves, with the records (then the map is built
\* from them) or with success=false (then every student gets the default)
GetAttendanceForClass ==
    /\ modal.pc = "attendance"
    /\ \/ \E p \in Listings(ClassRecords(ModalClassId, ModalClassDate)) :
            modal' = Loaded(modal, TRUE, AttendanceMap(AttendanceRecords(p)))
       \/ modal' = Loaded(modal, FALSE, initialAttendance(modal.students))
    /\ UNCHANGED <<attVars, bulkVars, dateVars, norm, svc, students, addFlow, screen, auth>>

MaxTaps == 2         \* taps on the buttons of the modal

\* setAttendanceData by a button, and the effect that recalculates the stats
Tapped(data) ==
    /\ modal.pc = "ready"
    /\ modal.taps < MaxTaps
    /\ modal' = [modal EXCEPT !.attendanceData = data, !.taps = @ + 1,
                              !.stats = calculateStats(modal.students, data)]
    /\ UNCHANGED <<attVars, bulkVars, dateVars, norm, svc, students, addFlow, screen, auth>>

ToggleAttendance ==
    \E i \in 1..Len(modal.students) :
        LET sid == modal.students[i].id
            prev == modal.attendanceData
        IN Tapped(WithEntry(prev, sid,
                [EntryAt(prev, sid) EXCEPT !.is_present = ~EntryAt(prev, sid).is_present]))

TogglePayment ==
    \E i \in 1..Len(modal.students) :
        LET sid == modal.students[i].id
            prev == modal.attendanceData
        IN Tapped(WithEntry(prev, sid,
                [EntryAt(prev, sid) EXCEPT
                    !.payment_complete = ~EntryAt(prev, sid).payment_complete]))

MarkAllPresent ==
    Tapped(WithEntries(modal.attendanceData, modal.students, "is_present", TRUE))

MarkAllAbsent ==
    Tapped(WithEntries(modal.attendanceData, modal.students, "is_present", FALSE))

MarkAllPaymentComplete ==
    Tapped(WithEntries(modal.attendanceData, modal.students, "payment_complete", TRUE))

\* a record of the class and date of the modal
ModalRecord(id, studentId, isPresent, paymentComplete, createdAt) ==
    [SeedRecord EXCEPT !.id = id, !.class_id = ModalClassId, !.student_id = studentId,
        !.class_date = ModalClassDate, !.is_present = EncodeBool(isPresent),
        !.payment_complete = EncodeBool(paymentComplete), !.created_at = createdAt,
        !.marked_at = createdAt]

\* the attendance collection when the modal is opened: empty; a record of the
\* first student; records of the first and the third student and one of
\* another class; two records of the first student
ModalStores ==
    {<<>>,
     <<ModalRecord(1, "s1", TRUE, FALSE, 0)>>,
     <<ModalRecord(1, "s1", TRUE, TRUE, 0), ModalRecord(2, "s3", TRUE, FALSE, 1),
       [ModalRecord(3, "s2", TRUE, TRUE, 1) EXCEPT !.class_id = "k2"]>>,
     <<ModalRecord(1, "s1", TRUE, FALSE, 0), ModalRecord(2, "s1", FALSE, TRUE, 0)>>}

InitModal ==
    /\ attendance \in ModalStores
    /\ uniqueIndex = FALSE
    /\ clock = 0
    /\ att = [c \in Clients |-> IdleFrame]
    /\ lastReq = NoRequest
    /\ calls = 0
    /\ failures = 0
    /\ hist = <<NoCall, NoCall>>
    /\ active = {}
    /\ BulkIdle
    /\ DatesIdle
    /\ UiIdle

NextModal ==
    \/ LoadAttendanceData
    \/ GetStudentsBySport
    \/ GetAttendanceForClass
    \/ ToggleAttendance
    \/ TogglePayment
    \/ MarkAllPresent
    \/ MarkAllAbsent
    \/ MarkAllPaymentComplete

SpecModal == InitModal /\ [][NextModal]_vars

\* the students were fetched
StudentsFetched == modal.pc \in {"attendance", "ready"} \/ modal.loaded # <<>>

PositionIn(list, student) == CHOOSE i \in 1..Len(list) : list[i].id = student.id

\* C15: for every class and list of students the roster of the modal holds a
\* loaded student exactly when the class has no time or timeMatches of the
\* student's batch time and the class time is true, in the order loaded.
C15_EligibleRoster ==
    StudentsFetched =>
        /\ \A i \in 1..Len(modal.loaded) :
            (\E j \in 1..Len(modal.students) : modal.students[j] = modal.loaded[i])
                <=> (Falsy(modal.classTime)
                        \/ timeMatches(modal.loaded[i].batch_time, modal.classTime)
                                = Returned(TRUE))
        /\ \A j \in 1..Len(modal.students) :
            \E i \in 1..Len(modal.loaded) : modal.loaded[i] = modal.students[j]
        /\ \A j \in 1..(Len(modal.students) - 1) :
            PositionIn(modal.loaded, modal.students[j])
                < PositionIn(modal.loaded, modal.students[j + 1])

\* the same for the loads in which no comparison throws
C15_WhenFilterReturns == modal.pc \in {"attendance", "ready"} => C15_EligibleRoster

(***************************************************************************)
(* Service methods called on their own, for every outcome of their store   *)
(* call.                                                                   *)
(***************************************************************************)
ServiceCall(methods) ==
    /\ svc.service = "none"
    /\ \E m \in methods, outcome \in StoreOutcomes :
        svc' = [service |-> m.service, name |-> m.name, outcome |-> outcome,
                result |-> ServiceResult(m, outcome)]
    /\ UNCHANGED <<attVars, bulkVars, dateVars, norm, modal, students, addFlow, screen, auth>>

ClassServiceCall == ServiceCall(ClassServiceMethods)
AttendanceServiceCall == ServiceCall(AttendanceServiceMethods)
StudentServiceCall == ServiceCall(StudentServiceMethods)

InitServices == InitLabels

NextServices == ClassServiceCall \/ AttendanceServiceCall \/ StudentServiceCall

SpecServices == InitServices /\ [][NextServices]_vars

\* C16: whatever the store call does, a service method resolves to an object
\* with a boolean success, with data when success is true and a non-empty
\* error message when success is false.
C16_UniformResult ==
    svc.service # "none" =>
        /\ svc.result.success \in BOOLEAN
        /\ svc.result.success => svc.result.hasData
        /\ ~svc.result.success => svc.result.error # ""

\* the part that holds: success says whether the store call resolved, and no
\* method is left without a result
C16_SuccessTellsOutcome ==
    svc.service # "none" => svc.result.success = svc.outcome.ok

(***************************************************************************)
(* Further properties of the bulk committer.                               *)
(***************************************************************************)
\* C17 as claimed: with skipConflicts=false a create is attempted for every
\* candidate of the plan, the conflicting ones too, and skipped is empty.
C17_AllAttempted ==
    (bulk.pc = "done" /\ ~bulk.data.skipConflicts) =>
        /\ createLog = KeysOf(bulk.previewClasses)
        /\ bulk.skipped = <<>>

\* C17 amended: with skipConflicts=false and a plan of at most 100 candidates
\* the call succeeds, a create was attempted for every candidate of the plan,
\* the conflicting ones too, and the skipped list returned is empty.
C17_AllAttemptedUnderCap ==
    (bulk.pc = "done" /\ ~bulk.data.skipConflicts
        /\ bulk.totalClasses <= MAX_BULK_SIZE) =>
        /\ bulk.ret.success
        /\ createLog = KeysOf(bulk.previewClasses)
        /\ bulk.ret.data.skipped = <<>>

\* a commit that created a class on a slot it had found taken
C17_Witness ==
    /\ bulk.pc = "done"
    /\ ~bulk.data.skipConflicts
    /\ bulk.ret.success
    /\ Len(bulk.conflicts) > 0
    /\ \E j \in 1..Len(bulk.created) : TakenAtCheck(KeyOf(bulk.created[j]))
    /\ bulk.ret.data.skipped = <<>>

\* C19: during one createBulkClasses run at most one create request is
\* outstanding, the candidates are issued in plan order, and a candidate's
\* create is issued only after the create before it has resolved.
C19_StrictlySequential ==
    Checked =>
        /\ Cardinality(bulk.outstanding) <= 1
        /\ bulk.issued = [k \in 1..Len(bulk.issued) |-> k - 1]
        /\ Len(bulk.issued) <= Len(bulk.classesToCreate)
        /\ Len(bulk.issued) = Len(createLog) + Cardinality(bulk.outstanding)
        /\ bulk.outstanding \subseteq {Len(bulk.issued) - 1}
        /\ bulk.pc = "done" => bulk.outstanding = {}

\* the create of a later candidate is awaited, after a failed and a
\* successful one
C19_Witness ==
    /\ bulk.pc = "create"
    /\ bulk.i >= 2
    /\ bulk.outstanding = {bulk.i}
    /\ bulk.failed # {}
    /\ Len(bulk.created) > 0

\* C20 as claimed: a pause is taken exactly when the number of successful
\* creations has just reached a positive multiple of 10.
C20_PauseEveryTenCreated ==
    Checked =>
        /\ bulk.pc = "pause" =>
            (Len(bulk.created) > 0 /\ Len(bulk.created) % PAUSE_EVERY = 0)
        /\ Cardinality(bulk.pauses) = Len(bulk.created) \div PAUSE_EVERY

\* C20 amended: a pause is taken after a create attempt exactly when the
\* number of attempts so far, successful or failed, is a positive multiple of
\* 10, the last attempt of the run included.
C20_PauseEveryTenAttempts ==
    Checked =>
        /\ bulk.pc = "pause" =>
            (Len(createLog) > 0 /\ Len(createLog) % PAUSE_EVERY = 0)
        /\ bulk.pauses = {i \in 0..(Len(createLog) - 1) : (i + 1) % PAUSE_EVERY = 0}
        /\ (Len(createLog) > 0 /\ Len(createLog) % PAUSE_EVERY = 0) =>
            bulk.pc \in {"pause", "create", "done"}
        /\ (bulk.pc = "create" /\ Len(createLog) > 0
                /\ Len(createLog) % PAUSE_EVERY = 0) => (Len(createLog) - 1) \in bulk.pauses

\* a pause after the tenth attempt of a run in which fewer than ten succeeded
C20_Witness ==
    /\ bulk.pc = "pause"
    /\ bulk.failed # {}
    /\ Len(createLog) = PAUSE_EVERY
    /\ Len(bulk.created) < PAUSE_EVERY

\* the pause after the last attempt of a run of 100 creates
C20_PauseAfterLast ==
    /\ bulk.pc = "pause"
    /\ Len(createLog) = Len(bulk.classesToCreate)

\* C21: createBulkClasses reads the existing classes once, before its first
\* create, and never again: what the check saw, the conflicts and the
\* candidates to create stay as they are from then on, each turn of the loop
\* goes to the next candidate whatever the store holds by then, and so a
\* class added by another client after the read does not keep the commit from
\* creating a second class on its slot, with skipConflicts=true too.
C21_SnapshotCheck ==
    [][/\ bulk.seen # bulk'.seen => (bulk.pc = "range" /\ createLog = <<>>)
       /\ (Checked /\ bulk'.pc # "idle") =>
            /\ bulk'.seen = bulk.seen
            /\ bulk'.conflicts = bulk.conflicts
            /\ bulk'.classesToCreate = bulk.classesToCreate
       /\ bulk'.pc = "create" => bulk'.i = Len(createLog')
       /\ createLog' # createLog =>
            /\ bulk.pc = "create"
            /\ createLog' = Append(createLog, KeyOf(bulk.classesToCreate[bulk.i + 1]))
            /\ (Len(bulk'.created) > Len(bulk.created)) =>
                    Cardinality(classes') = Cardinality(classes) + 1
      ]_vars

\* two classes persisted on one slot with skipConflicts=true: the slot was free
\* when the check read the store, another client added its class after that
\* read, and the commit created its own afterwards
C21_Witness ==
    /\ bulk.data.skipConflicts
    /\ bulk.readOk
    /\ \E x \in classes, y \in classes :
        /\ x.id[1] = "other" /\ y.id[1] = "bulk"
        /\ KeyOf(x) = KeyOf(y)
        /\ ~TakenAtCheck(KeyOf(x))
        /\ \E l \in bulk.late : l.key = KeyOf(x) /\ l.at <= y.id[2]

(***************************************************************************)
(* Add-student flows run one after the other: handleSubmit, one step per   *)
(* await.                                                                  *)
(***************************************************************************)
MaxFlows == 3            \* add-student flows of one behaviour
MaxStudentFailures == 1  \* failing requests to the students collection

\* the form is submitted with a valid email: handleSubmit runs up to the await
\* of checkDuplicateEmail
HandleSubmit ==
    /\ addFlow.pc = "idle"
    /\ addFlow.flows < MaxFlows
    /\ \E email \in EmailInputs :
        addFlow' = [addFlow EXCEPT !.pc = "check", !.email = email,
                       !.flows = addFlow.flows + 1, !.outcome = "none",
                       !.existed = StudentsWithEmail(students.docs, EmailKey(email)) # {}]
    /\ UNCHANGED <<attVars, bulkVars, dateVars, norm, modal, svc, students, screen, auth>>

\* checkDuplicateEmail resolves, with the answer of the store or with
\* success=false; handleSubmit alerts and returns, or goes on to createStudent
CheckDuplicateEmail ==
    /\ addFlow.pc = "check"
    /\ \E duplicateCheck \in
            {[success |-> TRUE,
              isDuplicate |-> StudentsWithEmail(students.docs, EmailKey(addFlow.email)) # {}]}
            \cup (IF addFlow.failures < MaxStudentFailures
                  THEN {[success |-> FALSE, isDuplicate |-> FALSE]} ELSE {}) :
        addFlow' =
            [addFlow EXCEPT
                !.pc = IF ProceedsToCreate(duplicateCheck) THEN "create" ELSE "idle",
                !.outcome = IF ProceedsToCreate(duplicateCheck) THEN "none" ELSE "duplicate",
                !.failures = IF duplicateCheck.success THEN @ ELSE @ + 1,
                !.checkFailed = @ \/ ~duplicateCheck.success]
    /\ UNCHANGED <<attVars, bulkVars, dateVars, norm, modal, svc, students, screen, auth>>

\* createStudent resolves: the document is created, or the store rejects it
\* (with 409 for an email the unique index holds already)
CreateStudent ==
    /\ addFlow.pc = "create"
    /\ LET email == StudentEmail(addFlow.email)
           taken == StudentsWithEmail(students.docs, email) # {}
       IN \/ /\ ~(students.uniqueEmail /\ taken)
             /\ students' = [students EXCEPT !.docs = Append(@, [email |-> email])]
             /\ addFlow' = [addFlow EXCEPT !.pc = "idle", !.outcome = "created"]
          \/ /\ students.uniqueEmail /\ taken
             /\ addFlow' = [addFlow EXCEPT !.pc = "idle", !.outcome = "rejected"]
             /\ UNCHANGED students
          \/ /\ addFlow.failures < MaxStudentFailures
             /\ addFlow' = [addFlow EXCEPT !.pc = "idle", !.outcome = "failed",
                               !.failures = @ + 1]
             /\ UNCHANGED students
    /\ UNCHANGED <<attVars, bulkVars, dateVars, norm, modal, svc, screen, auth>>

InitStudents ==
    /\ AttendanceIdle
    /\ BulkIdle
    /\ DatesIdle
    /\ norm = NoTrial
    /\ modal = ClosedModal
    /\ svc = NoServiceCall
    /\ students \in [docs : {<<>>}, uniqueEmail : BOOLEAN]
    /\ addFlow = IdleFlow
    /\ screen = NoScreen
    /\ auth = NoSession

NextStudents == HandleSubmit \/ CheckDuplicateEmail \/ CreateStudent

SpecStudents == InitStudents /\ [][NextStudents]_vars

\* C18: after add-student flows run one after the other, any store call
\* allowed to fail, no two student records have the same trimmed, lower-cased
\* email, and a flow whose email is in the store already issues no create.
C18_UniqueEmail ==
    /\ \A i \in 1..Len(students.docs), j \in 1..Len(students.docs) :
        i # j => EmailKey(students.docs[i].email) # EmailKey(students.docs[j].email)
    /\ addFlow.pc = "create" => ~addFlow.existed

\* the same as long as every duplicate check has resolved
C18_WhenChecksResolve == ~addFlow.checkFailed => C18_UniqueEmail

\* the same on a collection that has the unique email index: no two records,
\* though a create is issued
C18_WithUniqueIndex ==
    students.uniqueEmail =>
        \A i \in 1..Len(students.docs), j \in 1..Len(students.docs) :
            i # j => EmailKey(students.docs[i].email) # EmailKey(students.docs[j].email)

(***************************************************************************)
(* Two instructors' devices saving single records (markAttendance called   *)
(* directly) on one attendance collection.                                 *)
(***************************************************************************)
NextSaves ==
    \E c \in Clients :
        \/ MarkAttendance(c)
        \/ GetAttendanceRecord(c)
        \/ UpdateDocument(c)
        \/ CreateDocument(c)

SpecSaves == InitAtt /\ [][NextSaves]_vars

\* both clients have saved the triple once, each call found the record and no
\* store request failed
BothSaved ==
    /\ failures = 0
    /\ \A c \in Clients :
        /\ att[c].pc = "idle"
        /\ att[c].ret.kind = "mark"
        /\ att[c].ret.success
        /\ att[c].ret.wasUpdate

\* the step is the update of client c reaching the store
UpdateReaches(c) ==
    /\ att[c].pc = "write"
    /\ att'[c].pc # "write"
    /\ lastReq'.op = "update" /\ lastReq'.client = c /\ lastReq'.ok

\* C22: when the triple has a record and two clients save it, their lookups
\* and updates interleaved in any way and no store request failing, neither
\* save is rejected; each update leaves the collection with the record count
\* it had and the record with is_present, payment_complete, marked_by and
\* notes of that save; and afterwards the triple has exactly one record, the
\* one the update that reached the store last has written.
C22_LastWriterWins ==
    /\ [][\A c \in Clients :
            UpdateReaches(c) =>
                LET d == att[c].data
                    m == {i \in 1..Len(attendance') :
                            attendance'[i].id = att[c].existing.data[1].id}
                IN /\ Len(attendance') = Len(attendance)
                   /\ Cardinality(m) = 1
                   /\ \A i \in m :
                        /\ attendance'[i].is_present = EncodeBool(d.is_present)
                        /\ attendance'[i].payment_complete = EncodeBool(d.payment_complete)
                        /\ attendance'[i].marked_by = d.marked_by
                        /\ attendance'[i].notes = Trim(d.notes)
                        /\ att'[c].ret.success
                        /\ att'[c].ret.data = attendance'[i]
         ]_vars
    /\ [](BothSaved =>
            LET w == lastReq.client
                m == MatchingRecords("k1", "s1", 1)
            IN /\ lastReq.op = "update" /\ lastReq.ok
               /\ Cardinality(m) = 1
               /\ \A i \in m :
                    /\ attendance[i] = att[w].ret.data
                    /\ attendance[i].marked_by = w
                    /\ attendance[i].notes = Trim(NotesInput(w)))

\* the two saves overlapped and differ: the update that reached the store last
\* belongs to the call that started first, and its values are in the record
C22_Witness ==
    /\ BothSaved
    /\ \E w \in Clients, o \in Clients :
        /\ w = lastReq.client /\ o # w
        /\ att[w].ret.data.marked_at < att[o].ret.data.marked_at
        /\ att[w].ret.data.is_present # att[o].ret.data.is_present
        /\ att[w].ret.data.payment_complete # att[o].ret.data.payment_complete
        /\ \A i \in MatchingRecords("k1", "s1", 1) : attendance[i] = att[w].ret.data

(***************************************************************************)
(* The Attendance screen next to other clients that add classes and mark   *)
(* attendance: one step per await of its loads, per event delivered and    *)
(* per tap on a date filter.                                               *)
(***************************************************************************)
MaxRecords == 2          \* attendance records in the collection
MaxUserActions == 1      \* taps on a date filter
MaxChanges == 2          \* changes other clients make to the two collections
MaxLoads == 2            \* loads in flight when an event is delivered or a filter tapped

ClassToday == ExistingClass("k1", Today, Morning)
ClassTomorrow == ExistingClass("k2", Today + 1, Evening)
ClassLater == ExistingClass("k3", Today + UPCOMING_DAYS + 2, Morning)
ScreenClasses == {ClassToday, ClassTomorrow, ClassLater}

\* what another instructor marks: the next student of a class, on its date,
\* the first one present and not paid, the next one absent and paid
ScreenMarks ==
    {[class_id |-> x.id, student_id |-> StudentIds[Len(attendance) + 1],
      class_date |-> x.date, is_present |-> (attendance = <<>>),
      payment_complete |-> (attendance # <<>>),
      marked_by |-> "c2", notes |-> <<>>] :
        x \in {ClassToday, ClassTomorrow}}

screenFrame ==
    <<uniqueIndex, clock, att, lastReq, calls, failures, hist, active, zone, bulk,
      createLog, manual, dr, norm, modal, svc, students, addFlow, auth>>

RemoveAt(q, i) == SubSeq(q, 1, i - 1) \o SubSeq(q, i + 1, Len(q))

\* the documents getClasses({ limit }) lists: newest date first, at most limit
NewestClasses(limit) ==
    IF Cardinality(classes) <= limit THEN classes
    ELSE CHOOSE T \in SUBSET classes :
            /\ Cardinality(T) = limit
            /\ \A x \in T, y \in classes \ T : x.date >= y.date

\* what loadClasses fetches for the dateFilter of its closure
ClassesFor(dateFilter) ==
    IF dateFilter = "today" THEN {x \in classes : x.date = Today}
    ELSE IF dateFilter = "upcoming" THEN ClassesInDateRange(Today, Today + UPCOMING_DAYS)
    ELSE NewestClasses(ALL_LIMIT)

\* the call of a loadClasses up to its await
LoadClasses(dateFilter) == [fn |-> "loadClasses", dateFilter |-> dateFilter, classes |-> {}]

\* the call of a loadAttendanceStats up to its await, classes being those of
\* the render the function belongs to
LoadAttendanceStats(cls) ==
    [fn |-> "loadAttendanceStats", dateFilter |-> "", classes |-> cls]

\* for each class of cls a listing of its records
ListingChoices(cls) ==
    {f \in [cls -> UNION {Listings(ClassRecords(x.id, x.date)) : x \in cls}] :
        \A x \in cls : f[x] \in Listings(ClassRecords(x.id, x.date))}

\* the statsMap loadAttendanceStats builds: an entry for each class whose
\* getAttendanceStats succeeded, under the key `${classId}_${date}`
StatsMap(cls, listing) ==
    {[key |-> <<x.id, x.date>>, stats |-> AttendanceStats(AttendanceRecords(listing[x]))] :
        x \in cls}

\* the effect on [classes] run after setClasses(cls), in a render whose
\* isLoading is the given one: the loads in flight after it
AfterSetClasses(q, cls, isLoading) ==
    IF cls # {} /\ ~isLoading THEN Append(q, LoadAttendanceStats(cls)) ELSE q

\* loadInitialData comes to its end: loadAttendanceStats of the first render
\* has set an empty statsMap, loadClasses of the first render resolves, then
\* isLoading is cleared; setClasses is rendered with isLoading still set, or
\* together with its clearing on a build that renders the updates of a task
\* together
InitialLoadResolves ==
    /\ \E i \in 1..Len(screen.loads) :
        /\ screen.loads[i].fn = "loadInitialData"
        /\ \/ LET cls == ClassesFor(screen.loads[i].dateFilter) IN
                screen' = [screen EXCEPT
                    !.classes = cls, !.attendanceStats = {}, !.isLoading = FALSE,
                    !.loads = AfterSetClasses(RemoveAt(screen.loads, i), cls, ~screen.batched)]
           \/ screen' = [screen EXCEPT
                    !.attendanceStats = {}, !.isLoading = FALSE, !.failed = TRUE,
                    !.loads = RemoveAt(screen.loads, i)]
    /\ UNCHANGED <<attendance, classes, screenFrame>>

\* a change event of the classes collection is delivered: the callback of the
\* subscription calls the loadClasses it holds
ClassEventDelivered ==
    /\ screen.classEvents > 0
    /\ Len(screen.loads) < MaxLoads
    /\ screen' = [screen EXCEPT
            !.classEvents = @ - 1, !.sinceEvent = "classes",
            !.loads = Append(@, LoadClasses(FirstRender.dateFilter))]
    /\ UNCHANGED <<attendance, classes, screenFrame>>

\* a change event of the attendance collection is delivered: the callback
\* calls the loadAttendanceStats it holds
AttendanceEventDelivered ==
    /\ screen.attendanceEvents > 0
    /\ Len(screen.loads) < MaxLoads
    /\ screen' = [screen EXCEPT
            !.attendanceEvents = @ - 1, !.sinceEvent = "attendance",
            !.loads = Append(@, LoadAttendanceStats(FirstRender.classes))]
    /\ UNCHANGED <<attendance, classes, screenFrame>>

\* the fetch of a loadClasses resolves: setClasses on success, and the effect
\* on [classes] of the render that follows
LoadClassesResolves ==
    /\ \E i \in 1..Len(screen.loads) :
        /\ screen.loads[i].fn = "loadClasses"
        /\ \/ LET cls == ClassesFor(screen.loads[i].dateFilter) IN
                screen' = [screen EXCEPT
                    !.classes = cls,
                    !.loads = AfterSetClasses(RemoveAt(screen.loads, i), cls,
                                              screen.isLoading)]
           \/ screen' = [screen EXCEPT !.failed = TRUE,
                                       !.loads = RemoveAt(screen.loads, i)]
    /\ UNCHANGED <<attendance, classes, screenFrame>>

\* the getAttendanceStats calls of a loadAttendanceStats resolve (all of them
\* with success, or none): setAttendanceStats of the map built
LoadAttendanceStatsResolves ==
    /\ \E i \in 1..Len(screen.loads) :
        /\ screen.loads[i].fn = "loadAttendanceStats"
        /\ \/ \E listing \in ListingChoices(screen.loads[i].classes) :
                screen' = [screen EXCEPT
                    !.attendanceStats = StatsMap(screen.loads[i].classes, listing),
                    !.loads = RemoveAt(screen.loads, i)]
           \/ /\ screen.loads[i].classes # {}
              /\ screen' = [screen EXCEPT !.attendanceStats = {}, !.failed = TRUE,
                                          !.loads = RemoveAt(screen.loads, i)]
    /\ UNCHANGED <<attendance, classes, screenFrame>>

\* a tap on another date filter: setDateFilter and the effect on [dateFilter]
SetDateFilter ==
    /\ screen.userActions < MaxUserActions
    /\ Len(screen.loads) < MaxLoads
    /\ \E filter \in DateFilters \ {screen.dateFilter} :
        screen' = [screen EXCEPT
            !.dateFilter = filter, !.userActions = @ + 1, !.sinceEvent = "user",
            !.loads = IF ~screen.isLoading THEN Append(@, LoadClasses(filter)) ELSE @]
    /\ UNCHANGED <<attendance, classes, screenFrame>>

\* another client creates a class; the store emits a change event
ClassCreatedElsewhere ==
    /\ screen.changes < MaxChanges
    /\ \E x \in ScreenClasses \ classes : classes' = classes \cup {x}
    /\ screen' = [screen EXCEPT !.classEvents = @ + 1, !.changes = @ + 1]
    /\ UNCHANGED <<attendance, screenFrame>>

\* another client marks a student of a class; the store emits a change event
AttendanceMarkedElsewhere ==
    /\ Len(attendance) < MaxRecords
    /\ screen.changes < MaxChanges
    /\ \E data \in ScreenMarks :
        attendance' = Append(attendance, NewDocument(AttendanceDocument(data, clock)))
    /\ screen' = [screen EXCEPT !.attendanceEvents = @ + 1, !.changes = @ + 1]
    /\ UNCHANGED <<classes, screenFrame>>

InitScreen ==
    /\ attendance = <<>>
    /\ uniqueIndex = FALSE
    /\ clock = 0
    /\ att = [c \in Clients |-> IdleFrame]
    /\ lastReq = NoRequest
    /\ calls = 0
    /\ failures = 0
    /\ hist = <<NoCall, NoCall>>
    /\ active = {}
    /\ classes \in {{ClassToday}, {ClassToday, ClassLater}}
    /\ zone = [std |-> 0, dstAt |-> NoDst]
    /\ bulk = IdleBulk
    /\ createLog = <<>>
    /\ manual = 0
    /\ DatesIdle
    /\ norm = NoTrial
    /\ modal = ClosedModal
    /\ svc = NoServiceCall
    /\ students = NoStudents
    /\ addFlow = IdleFlow
    /\ screen \in {MountedScreen(b) : b \in BOOLEAN}
    /\ auth = NoSession

NextScreen ==
    \/ InitialLoadResolves
    \/ ClassEventDelivered
    \/ AttendanceEventDelivered
    \/ LoadClassesResolves
    \/ LoadAttendanceStatsResolves
    \/ SetDateFilter
    \/ ClassCreatedElsewhere
    \/ AttendanceMarkedElsewhere

SpecScreen == InitScreen /\ [][NextScreen]_vars

\* nothing is in flight and no event is pending
Settled ==
    /\ screen.loads = <<>>
    /\ screen.classEvents = 0 /\ screen.attendanceEvents = 0
    /\ ~screen.isLoading

\* the stats shown for class x are those of the store's records of x (a class
\* without records may be shown without stats)
ShowsStoreStats(x) ==
    LET S == ClassRecords(x.id, x.date) IN
    S # {} =>
        \E e \in screen.attendanceStats :
            /\ e.key = <<x.id, x.date>>
            /\ e.stats.totalStudents = Cardinality(S)
            /\ e.stats.presentCount =
                    Cardinality({i \in S : attendance[i].is_present = "true"})
            /\ e.stats.paymentCompleteCount =
                    Cardinality({i \in S : attendance[i].payment_complete = "true"})

\* C23: once the loads started by a delivered change event have completed,
\* no fetch having failed and nothing having happened since, the class list
\* shown is the store's for the selected date filter and the stats shown for
\* each class in the list are those of the store's records.
C23_ReloadOnEvent ==
    (Settled /\ screen.sinceEvent \in {"classes", "attendance"} /\ ~screen.failed) =>
        /\ screen.classes = ClassesFor(screen.dateFilter)
        /\ \A x \in screen.classes : ShowsStoreStats(x)

\* the part that holds: without a tap on a filter the list shown after a
\* change event of the classes collection is the store's for today
C23_ClassesOnFirstFilter ==
    (Settled /\ screen.sinceEvent = "classes" /\ ~screen.failed
        /\ screen.userActions = 0) =>
        screen.classes = ClassesFor("today")

(***************************************************************************)
(* Properties of the view the attendance modal loads.                      *)
(***************************************************************************)
\* the stored records of a student for the class and date of the modal
StoredFor(sid) ==
    {i \in ClassRecords(ModalClassId, ModalClassDate) : attendance[i].student_id = sid}

\* C24: in the view loadAttendanceData builds, a roster student without a
\* stored record of the class and date is shown not present and not paid with
\* no record id, and a roster student with a stored record is shown with the
\* decoded is_present and payment_complete of a record of theirs.
C24_LoadedView ==
    (modal.pc = "ready" /\ modal.taps = 0) =>
        \A k \in 1..Len(modal.students) :
            LET sid == modal.students[k].id
                shown == ShownFor(modal.attendanceData, sid)
            IN /\ StoredFor(sid) = {} =>
                    /\ ~shown.is_present
                    /\ ~shown.payment_complete
                    /\ shown.existing_id = NoRecordId
               /\ StoredFor(sid) # {} =>
                    \E i \in StoredFor(sid) :
                        /\ shown.is_present = DecodeBool(attendance[i].is_present)
                        /\ shown.payment_complete = DecodeBool(attendance[i].payment_complete)
                        /\ shown.existing_id = attendance[i].id

\* the same for the loads whose attendance query resolved
C24_WhenReadResolves == modal.attendanceOk => C24_LoadedView

\* the part of C24 on writes: no step of the modal, its load included, changes
\* a collection of the store
C24_ReadOnly ==
    [][attendance' = attendance /\ classes' = classes /\ students' = students
        /\ lastReq' = lastReq]_vars

(***************************************************************************)
(* The string encoding of the two booleans of a record.                    *)
(***************************************************************************)
BoolTokens == {"true", "false"}

\* C25: every record of the collection has is_present and payment_complete
\* in {"true", "false"}, and after a markAttendance call that succeeded (as
\* a create or as an update) getAttendanceForClass gives, for the record the
\* call wrote, the booleans the call was given.
C25_StringEncoding ==
    /\ \A i \in 1..Len(attendance) :
        /\ attendance[i].is_present \in BoolTokens
        /\ attendance[i].payment_complete \in BoolTokens
    /\ LET b == hist[2] IN
       (b.result.kind = "mark" /\ b.result.success) =>
            LET read == {DecodeRecord(attendance[i]) :
                            i \in ClassRecords(b.data.class_id, b.data.class_date)}
            IN \E r \in read :
                /\ r.id = b.result.data.id
                /\ r.student_id = b.data.student_id
                /\ r.is_present = b.data.is_present
                /\ r.payment_complete = b.data.payment_complete
                /\ b.result.data.is_present = EncodeBool(b.data.is_present)
                /\ b.result.data.payment_complete = EncodeBool(b.data.payment_complete)

\* a record created present and paid was saved again as absent and not paid,
\* and is read back so
C25_Witness ==
    /\ hist[1].result.kind = "mark" /\ hist[1].result.success
    /\ hist[1].data.is_present /\ hist[1].data.payment_complete
    /\ hist[2].result.kind = "mark" /\ hist[2].result.success
    /\ hist[2].result.wasUpdate
    /\ hist[2].result.data.id = hist[1].result.data.id
    /\ ~hist[2].data.is_present /\ ~hist[2].data.payment_complete
    /\ \E i \in 1..Len(attendance) :
        /\ attendance[i].id = hist[2].result.data.id
        /\ ~DecodeRecord(attendance[i]).is_present
        /\ ~DecodeRecord(attendance[i]).payment_complete

(***************************************************************************)
(* The result of a commit as a partition of its plan.                      *)
(***************************************************************************)
\* how often the slot key is in the list xs
Occurrences(xs, key) == Cardinality({j \in 1..Len(xs) : KeyOf(xs[j]) = key})

\* the candidates of the plan that the conflict check of the commit found a
\* class for
ConflictingCandidates ==
    {i \in 1..Len(bulk.previewClasses) :
        \E j \in 1..Len(bulk.conflicts) :
            KeyOf(bulk.conflicts[j]) = KeyOf(bulk.previewClasses[i])}

\* C26: when createBulkClasses returns success=true every candidate of the
\* plan is in exactly one of created, skipped and errors (a slot has as many
\* entries in the three lists together as the plan has candidates for it),
\* the three counts add up to totalClasses, and with skipConflicts=true
\* skipped has as many entries as there are conflicting candidates and
\* created and errors have the rest.
C26_Partition ==
    (bulk.pc = "done" /\ bulk.ret.success) =>
        LET d == bulk.ret.data IN
        /\ \A i \in 1..Len(bulk.previewClasses) :
            LET key == KeyOf(bulk.previewClasses[i]) IN
            Occurrences(d.created, key) + Occurrences(d.skipped, key)
                + Occurrences(d.errors, key) = Occurrences(bulk.previewClasses, key)
        /\ Len(d.created) + Len(d.skipped) + Len(d.errors) = bulk.totalClasses
        /\ bulk.data.skipConflicts =>
            /\ Len(d.skipped) = Cardinality(ConflictingCandidates)
            /\ Len(d.created) + Len(d.errors)
                    = bulk.totalClasses - Cardinality(ConflictingCandidates)
        /\ ~bulk.data.skipConflicts => d.skipped = <<>>

\* a commit has returned with candidates of all three kinds
C26_Witness ==
    /\ bulk.pc = "done"
    /\ bulk.ret.success
    /\ bulk.data.skipConflicts
    /\ Len(bulk.ret.data.created) > 0
    /\ Len(bulk.ret.data.skipped) > 0
    /\ Len(bulk.ret.data.errors) > 0

\* the conflicting candidates of C26 are those whose slot held a class when
\* the check read the store, as long as that read resolved
C26_ConflictsAreTakenSlots ==
    (Checked /\ bulk.readOk) =>
        ConflictingCandidates =
            {i \in 1..Len(bulk.previewClasses) : TakenAtCheck(KeyOf(bulk.previewClasses[i]))}

\* C27: after the load and any taps on the toggles and the mark-all buttons
\* the stats of the modal have total = number of roster students, present and
\* paymentComplete between 0 and total, absent = total - present and
\* paymentPending = total - paymentComplete, neither negative, whatever
\* records the store holds for the class and date.
C27_StatsConsistent ==
    modal.pc = "ready" =>
        LET st == modal.stats IN
        /\ st.total = Len(modal.students)
        /\ 0 <= st.present /\ st.present <= st.total
        /\ 0 <= st.paymentComplete /\ st.paymentComplete <= st.total
        /\ st.absent = st.total - st.present /\ st.absent >= 0
        /\ st.paymentPending = st.total - st.paymentComplete /\ st.paymentPending >= 0

\* the same when every record of the class and date is of a roster student
C27_OnRosterRecords ==
    (\A i \in ClassRecords(ModalClassId, ModalClassDate) :
        \E k \in 1..Len(modal.students) : modal.students[k].id = attendance[i].student_id)
    => C27_StatsConsistent

(***************************************************************************)
(* The Classes screen: the eligible students of a class card.  Its         *)
(* normalizeBatchTime and timeMatches are the ones of the attendance modal,*)
(* line for line.                                                          *)
(***************************************************************************)
\* getEligibleStudentsCount(classItem) over the loaded students; a callback
\* that throws ends the call with the exception
getEligibleStudentsCount(classTime, loaded) ==
    IF Falsy(classTime) \/ Len(loaded) = 0 THEN Returned(0)
    ELSE IF \E i \in 1..Len(loaded) : timeMatches(loaded[i].batch_time, classTime).threw
         THEN Threw
    ELSE Returned(Cardinality({i \in 1..Len(loaded) :
                    timeMatches(loaded[i].batch_time, classTime).value}))

\* C28: for every class and every loaded student list the eligible students
\* count of the Classes screen is the number of students in the roster the
\* attendance modal builds for the same class and students.
C28_SameEligibility ==
    modal.pc \in {"attendance", "ready"} =>
        getEligibleStudentsCount(modal.classTime, modal.loaded)
            = Returned(Len(modal.students))

\* the same for the classes that have a time
C28_WhenClassHasTime ==
    ~Falsy(modal.classTime) => C28_SameEligibility

\* a class with a time, several students loaded, some of them in the roster
\* and some not
C28_MixedRoster ==
    /\ modal.pc = "ready"
    /\ ~Falsy(modal.classTime)
    /\ Len(modal.students) > 0
    /\ Len(modal.students) < Len(modal.loaded)

(***************************************************************************)
(* getAttendanceStats read at any moment of the saves.                     *)
(***************************************************************************)
\* the (class, date) pairs the collection holds records of
StoredClasses ==
    {<<attendance[i].class_id, attendance[i].class_date>> : i \in 1..Len(attendance)}

\* the stats objects getAttendanceStats(classId, classDate) can return when
\* its query resolves
StatsOf(classId, classDate) ==
    {AttendanceStats(AttendanceRecords(p)) : p \in Listings(ClassRecords(classId, classDate))}

\* the records of S no record of S was marked after
LatestMarked(S) ==
    {i \in S : \A j \in S : attendance[j].marked_at <= attendance[i].marked_at}

\* C29: for the records of a class and date after any saves and re-saves,
\* lastMarkedBy and lastMarkedAt of getAttendanceStats are marked_by and
\* marked_at of the record with the greatest marked_at, and presentCount +
\* absentCount = totalStudents.
C29_LastMarker ==
    \A k \in StoredClasses :
        \A st \in StatsOf(k[1], k[2]) :
            /\ \E i \in LatestMarked(ClassRecords(k[1], k[2])) :
                    /\ st.lastMarkedBy = attendance[i].marked_by
                    /\ st.lastMarkedAt = attendance[i].marked_at
            /\ st.presentCount + st.absentCount = st.totalStudents

\* the counts alone, and the null marker of a class without records
C29_CountsAddUp ==
    /\ \A k \in StoredClasses :
            \A st \in StatsOf(k[1], k[2]) :
                /\ st.totalStudents = Cardinality(ClassRecords(k[1], k[2]))
                /\ st.presentCount + st.absentCount = st.totalStudents
                /\ st.paymentCompleteCount + st.paymentPendingCount = st.totalStudents
    /\ \A st \in StatsOf("none", 0) :
            st.lastMarkedBy = NullMarker /\ st.lastMarkedAt = NullTime

(***************************************************************************)
(* The auth provider: initializeAuth, login, logout, register and          *)
(* refreshUser, one step per await.  auth.session and auth.account are the *)
(* server's side (the session of this device, the account of the email),   *)
(* auth.inFlight the calls that wait at an await, auth.log the calls that  *)
(* have returned, in the order they returned.                              *)
(***************************************************************************)
MaxAuthCalls == 3    \* calls made by the application
MaxInFlight == 2     \* calls waiting at an await at one time

TheUser == "u1"
isAuthenticated(a) == a.user # "null"

\* email and password as entered: a blank field, an email the pattern
\* rejects, a password the server rejects, the credentials of the account
LoginInputs == {"blank", "malformed", "wrong", "right"}
\* the same for register, and a password of fewer than 8 characters
RegisterInputs == {"blank", "malformed", "short", "right"}

ValidationMessage(input) ==
    CASE input = "blank" -> "Email and password are required"
      [] input = "malformed" -> "Please enter a valid email address"
      [] input = "short" -> "Password must be at least 8 characters long"
      [] OTHER -> "null"

\* the error codes a rejected request carries (0: no code, a network error)
AuthErrorCodes == {401, 429, 0}
LoginMessage(code) ==
    CASE code = 401 -> "Invalid email or password. Please check your credentials."
      [] code = 429 -> "Too many attempts. Please wait a moment before trying again."
      [] code = 400 -> "Invalid request. Please check your email and password format."
      [] OTHER -> "Network request failed"
RegisterMessage(code) ==
    IF code = 409 THEN "An account with this email already exists."
    ELSE "Network request failed"

AuthFrame(op, pc, input, caller) ==
    [op |-> op, pc |-> pc, input |-> input, caller |-> caller, result |-> FALSE]
Returns(op, success) == [op |-> op, success |-> success]

MayCall == auth.calls < MaxAuthCalls /\ Len(auth.inFlight) < MaxInFlight
Waiting(op, pc) == {i \in 1..Len(auth.inFlight) :
                        auth.inFlight[i].op = op /\ auth.inFlight[i].pc = pc}

\* the provider after the mount effect has started initializeAuth: either
\* isAppwriteConfigured() is false and the call has ended in its catch, or the
\* call waits for account.get() of checkAuthStatus
Mounted(configured, account, session) ==
    IF configured
    THEN [NoSession EXCEPT !.account = account, !.session = session,
            !.inFlight = <<AuthFrame("initializeAuth", "get", "none", "ui")>>]
    ELSE [NoSession EXCEPT !.account = account, !.session = session,
            !.error = "Appwrite is not properly configured. Please check your environment variables.",
            !.isLoading = FALSE, !.isInitialized = TRUE,
            !.log = <<Returns("initializeAuth", FALSE)>>]

\* mutant: the catch of login keeps the user
loginFailedKeepsUser(a, i, message) ==
    LET f == a.inFlight[i]
        b == [a EXCEPT !.error = message, !.isLoading = FALSE,
                       !.log = Append(@, Returns("login", FALSE))]
    IN IF f.caller = "register"
       THEN [b EXCEPT !.inFlight[i] = [f EXCEPT !.op = "register", !.pc = "loginResult",
                                                !.result = FALSE]]
       ELSE [b EXCEPT !.inFlight = RemoveAt(@, i)]

\* the catch and the finally of login for the call of frame i: error set, user
\* null, success false; a login called by register hands its result to it
loginFailed(a, i, message) ==
    LET f == a.inFlight[i]
        b == [a EXCEPT !.error = message, !.user = "null", !.isLoading = FALSE,
                       !.log = Append(@, Returns("login", FALSE))]
    IN IF f.caller = "register"
       THEN [b EXCEPT !.inFlight[i] = [f EXCEPT !.op = "register", !.pc = "loginResult",
                                                !.result = FALSE]]
       ELSE [b EXCEPT !.inFlight = RemoveAt(@, i)]

\* login(email, password) up to its first await; invalid input ends the call
\* in the catch
Login ==
    /\ MayCall
    /\ \E input \in LoginInputs :
        IF input \in {"blank", "malformed"}
        THEN auth' = [auth EXCEPT !.calls = @ + 1, !.error = ValidationMessage(input),
                         !.user = "null", !.isLoading = FALSE,
                         !.log = Append(@, Returns("login", FALSE))]
        ELSE auth' = [auth EXCEPT !.calls = @ + 1, !.error = "null", !.isLoading = TRUE,
                         !.inFlight = Append(@, AuthFrame("login", "createEmailPasswordSession",
                                                          input, "ui"))]
    /\ UNCHANGED <<attVars, bulkVars, dateVars, norm, modal, svc, students, addFlow, screen>>

\* account.createEmailPasswordSession resolves or rejects
CreateEmailPasswordSession ==
    /\ \E i \in Waiting("login", "createEmailPasswordSession") :
        \/ /\ auth.inFlight[i].input = "right"
           /\ auth.account
           /\ auth' = [auth EXCEPT !.session = TRUE, !.inFlight[i].pc = "get"]
        \/ \E code \in AuthErrorCodes :
            /\ code = 401 => ~(auth.inFlight[i].input = "right" /\ auth.account)
            /\ auth' = loginFailed(auth, i, LoginMessage(code))
    /\ UNCHANGED <<attVars, bulkVars, dateVars, norm, modal, svc, students, addFlow, screen>>

\* account.get of login resolves (there is a session) or rejects
LoginGet ==
    /\ \E i \in Waiting("login", "get") :
        \/ /\ auth.session
           /\ LET f == auth.inFlight[i]
                  b == [auth EXCEPT !.user = TheUser, !.isLoading = FALSE,
                                    !.log = Append(@, Returns("login", TRUE))]
              IN auth' = IF f.caller = "register"
                         THEN [b EXCEPT !.inFlight[i] =
                                    [f EXCEPT !.op = "register", !.pc = "loginResult",
                                              !.result = TRUE]]
                         ELSE [b EXCEPT !.inFlight = RemoveAt(@, i)]
        \/ \E code \in AuthErrorCodes :
            /\ code = 401 => ~auth.session
            /\ auth' = loginFailed(auth, i, LoginMessage(code))
    /\ UNCHANGED <<attVars, bulkVars, dateVars, norm, modal, svc, students, addFlow, screen>>

\* logout() up to the await of account.deleteSession('current')
Logout ==
    /\ MayCall
    /\ auth' = [auth EXCEPT !.calls = @ + 1, !.error = "null", !.isLoading = TRUE,
                   !.inFlight = Append(@, AuthFrame("logout", "deleteSession", "none", "ui"))]
    /\ UNCHANGED <<attVars, bulkVars, dateVars, norm, modal, svc, students, addFlow, screen>>

\* mutant: the catch of logout leaves the user signed in
logoutRejectedKeepsUser(a, i, session) ==
    [a EXCEPT !.session = session,
              !.error = "Network request failed", !.isLoading = FALSE,
              !.inFlight = RemoveAt(@, i), !.log = Append(@, Returns("logout", FALSE))]

\* the catch and the finally of logout
logoutRejected(a, i, session) ==
    [a EXCEPT !.session = session, !.user = "null",
              !.error = "Network request failed", !.isLoading = FALSE,
              !.inFlight = RemoveAt(@, i), !.log = Append(@, Returns("logout", FALSE))]

\* account.deleteSession resolves (the session is deleted) or rejects: there
\* was no session, or the request or its answer was lost
DeleteSession ==
    /\ \E i \in Waiting("logout", "deleteSession") :
        \/ /\ auth.session
           /\ auth' = [auth EXCEPT !.session = FALSE, !.user = "null", !.isLoading = FALSE,
                          !.inFlight = RemoveAt(@, i),
                          !.log = Append(@, Returns("logout", TRUE))]
        \/ \E session \in {auth.session, FALSE} :
            auth' = logoutRejected(auth, i, session)
    /\ UNCHANGED <<attVars, bulkVars, dateVars, norm, modal, svc, students, addFlow, screen>>

\* register(email, password, name) up to the await of account.create; invalid
\* input ends the call in the catch, which leaves the user
Register ==
    /\ MayCall
    /\ \E input \in RegisterInputs :
        IF input # "right"
        THEN auth' = [auth EXCEPT !.calls = @ + 1, !.error = ValidationMessage(input),
                         !.isLoading = FALSE,
                         !.log = Append(@, Returns("register", FALSE))]
        ELSE auth' = [auth EXCEPT !.calls = @ + 1, !.error = "null", !.isLoading = TRUE,
                         !.inFlight = Append(@, AuthFrame("register", "create", input, "ui"))]
    /\ UNCHANGED <<attVars, bulkVars, dateVars, norm, modal, svc, students, addFlow, screen>>

\* account.create resolves, and register calls login up to its first await;
\* or it rejects (409: the email has an account)
CreateAccount ==
    /\ \E i \in Waiting("register", "create") :
        \/ /\ ~auth.account
           /\ auth' = [auth EXCEPT !.account = TRUE, !.error = "null", !.isLoading = TRUE,
                          !.inFlight[i] = AuthFrame("login", "createEmailPasswordSession",
                                                    "right", "register")]
        \/ \E code \in {409, 0} :
            /\ code = 409 => auth.account
            /\ auth' = [auth EXCEPT !.error = RegisterMessage(code), !.isLoading = FALSE,
                           !.inFlight = RemoveAt(@, i),
                           !.log = Append(@, Returns("register", FALSE))]
    /\ UNCHANGED <<attVars, bulkVars, dateVars, norm, modal, svc, students, addFlow, screen>>

\* the login called by register has returned: register returns its result
RegisterReturns ==
    /\ \E i \in Waiting("register", "loginResult") :
        auth' = [auth EXCEPT !.isLoading = FALSE, !.inFlight = RemoveAt(@, i),
                    !.log = Append(@, Returns("register", auth.inFlight[i].result))]
    /\ UNCHANGED <<attVars, bulkVars, dateVars, norm, modal, svc, students, addFlow, screen>>

\* refreshUser() up to the await of account.get; without a user it returns null
RefreshUser ==
    /\ MayCall
    /\ auth' = IF ~isAuthenticated(auth)
               THEN [auth EXCEPT !.calls = @ + 1,
                        !.log = Append(@, Returns("refreshUser", FALSE))]
               ELSE [auth EXCEPT !.calls = @ + 1,
                        !.inFlight = Append(@, AuthFrame("refreshUser", "get", "none", "ui"))]
    /\ UNCHANGED <<attVars, bulkVars, dateVars, norm, modal, svc, students, addFlow, screen>>

\* account.get of refreshUser resolves or rejects
RefreshUserGet ==
    /\ \E i \in Waiting("refreshUser", "get") :
        \/ /\ auth.session
           /\ auth' = [auth EXCEPT !.user = TheUser, !.inFlight = RemoveAt(@, i),
                          !.log = Append(@, Returns("refreshUser", TRUE))]
        \/ auth' = [auth EXCEPT !.user = "null", !.inFlight = RemoveAt(@, i),
                       !.log = Append(@, Returns("refreshUser", FALSE))]
    /\ UNCHANGED <<attVars, bulkVars, dateVars, norm, modal, svc, students, addFlow, screen>>

\* account.get of checkAuthStatus resolves or rejects, and initializeAuth
\* runs its finally
CheckAuthStatus ==
    /\ \E i \in Waiting("initializeAuth", "get") :
        \/ /\ auth.session
           /\ auth' = [auth EXCEPT !.user = TheUser, !.error = "null", !.isLoading = FALSE,
                          !.isInitialized = TRUE, !.inFlight = RemoveAt(@, i),
                          !.log = Append(@, Returns("initializeAuth", TRUE))]
        \/ auth' = [auth EXCEPT !.user = "null", !.isLoading = FALSE,
                       !.isInitialized = TRUE, !.inFlight = RemoveAt(@, i),
                       !.log = Append(@, Returns("initializeAuth", FALSE))]
    /\ UNCHANGED <<attVars, bulkVars, dateVars, norm, modal, svc, students, addFlow, screen>>

InitAuth ==
    /\ AttendanceIdle
    /\ BulkIdle
    /\ DatesIdle
    /\ norm = NoTrial
    /\ modal = ClosedModal
    /\ svc = NoServiceCall
    /\ students = NoStudents
    /\ addFlow = IdleFlow
    /\ screen = NoScreen
    /\ \E configured \in BOOLEAN, account \in BOOLEAN, session \in BOOLEAN :
        /\ session => account
        /\ auth = Mounted(configured, account, session)

NextAuth ==
    \/ Login
    \/ CreateEmailPasswordSession
    \/ LoginGet
    \/ Logout
    \/ DeleteSession
    \/ Register
    \/ CreateAccount
    \/ RegisterReturns
    \/ RefreshUser
    \/ RefreshUserGet
    \/ CheckAuthStatus

SpecAuth == InitAuth /\ [][NextAuth]_vars

\* the step in which a call of op returns
ReturnsNow(op) ==
    /\ Len(auth'.log) = Len(auth.log) + 1
    /\ Last(auth'.log).op = op

\* C30: whatever login, logout, register and refreshUser calls are made, the
\* step in which a logout call returns leaves the user null (isAuthenticated
\* false), whether the deletion of the session succeeded or not; the step in
\* which a login call fails leaves the user null and returns success false;
\* the user is null while the call returned last is a logout or a failed
\* login; and isLoading is false whenever no call is in flight.
C30_SessionState ==
    /\ [][ReturnsNow("logout") => ~isAuthenticated(auth')]_vars
    /\ [][(ReturnsNow("login") /\ ~Last(auth'.log).success) => auth'.user = "null"]_vars
    /\ [](auth.log # <<>> =>
            ((Last(auth.log).op = "logout" \/ Last(auth.log) = Returns("login", FALSE))
                => auth.user = "null"))
    /\ [](auth.inFlight = <<>> => ~auth.isLoading)

\* a login has signed the user in, then a logout whose request was rejected
\* has returned: the session is still there and the user is null
C30_Witness ==
    /\ auth.inFlight = <<>>
    /\ Len(auth.log) >= 2
    /\ auth.log[Len(auth.log) - 1] = Returns("login", TRUE)
    /\ Last(auth.log) = Returns("logout", FALSE)
    /\ auth.session
    /\ ~isAuthenticated(auth)
    /\ ~auth.isLoading

\* a login has failed at the server and returned success false
C30_FailedLogin ==
    /\ auth.inFlight = <<>>
    /\ auth.log # <<>>
    /\ Last(auth.log) = Returns("login", FALSE)
    /\ auth.error = LoginMessage(401)
    /\ ~isAuthenticated(auth)

====
